---- MODULE Spec2Model ----
(***************************************************************************)
(* FocusAR roadmapper: the fractal layout core (FractalNode,               *)
(* FractalAlgorithm) as a state machine over the calls a host makes on one *)
(* FractalAlgorithm object.                                                *)
(*                                                                         *)
(* Numbers.  The code computes in floating point; the model computes the   *)
(* same expressions exactly, in fixed point:                               *)
(*   node complexity        in hundredths            (1.0  = 100)          *)
(*   _analyzeComplexity     in 1/AUnit               (1.0  = AUnit)        *)
(*   positions              in 1/10000               (0.5  = 5000)         *)
(*   weights                as reduced fractions <<numerator, denominator>>*)
(* Optional fields of a task (description, subtasks, dependencies) are     *)
(* <<>> when absent and <<v>> when present with value v.                   *)
(***************************************************************************)
EXTENDS Integers, Sequences, FiniteSets, TLC

\* ------------------------------------------------------------------------
\* Bounds of the model
\* ------------------------------------------------------------------------
MaxWidth == 5      \* widest list of subtasks among the input tasks
MaxOver == 2       \* levels by which the deepest input task exceeds maxDepth

\* ------------------------------------------------------------------------
\* Small helpers
\* ------------------------------------------------------------------------
Min(a, b) == IF a <= b THEN a ELSE b
Max(a, b) == IF a >= b THEN a ELSE b

None == <<>>
Some(v) == <<v>>
IsSome(o) == Len(o) = 1
Get(o) == o[1]

RECURSIVE Pow2(_)
Pow2(n) == IF n = 0 THEN 1 ELSE 2 * Pow2(n - 1)

RECURSIVE SumSeq(_)
SumSeq(s) == IF Len(s) = 0 THEN 0 ELSE Head(s) + SumSeq(Tail(s))

RECURSIVE Gcd(_, _)
Gcd(a, b) == IF b = 0 THEN a ELSE Gcd(b, a % b)

\* the fraction n/d in lowest terms, and the order of fractions
Frac(n, d) == <<n \div Gcd(n, d), d \div Gcd(n, d)>>
FracLeq(a, b) == a[1] * b[2] <= b[1] * a[2]
FracMin(a, b) == IF FracLeq(a, b) THEN a ELSE b
FracMax(a, b) == IF FracLeq(a, b) THEN b ELSE a

RECURSIVE Pow(_, _)
Pow(b, n) == IF n = 0 THEN 1 ELSE b * Pow(b, n - 1)

RECURSIVE Concat(_)
Concat(seqs) == IF Len(seqs) = 0 THEN <<>> ELSE Head(seqs) \o Concat(Tail(seqs))

\* ------------------------------------------------------------------------
\* Strings: the JavaScript string and RegExp operations the code uses.
\* A string is a sequence of characters; Char(s, i) is its i-th character
\* (1-based) as a one-character string.
\* ------------------------------------------------------------------------
Char(s, i) == SubSeq(s, i, i)

UpperLetters == "ABCDEFGHIJKLMNOPQRSTUVWXYZ"
LowerLetters == "abcdefghijklmnopqrstuvwxyz"
Digits == "0123456789_"      \* with the letters, the characters of \w

\* the characters of a string, as a set
CharsOf(alphabet) == {Char(alphabet, k) : k \in 1..Len(alphabet)}
UpperSet == CharsOf(UpperLetters)
WordChars == CharsOf(UpperLetters) \cup CharsOf(LowerLetters) \cup CharsOf(Digits)
LowerOf ==
    [c \in UpperSet |->
        Char(LowerLetters, CHOOSE k \in 1..Len(UpperLetters) : Char(UpperLetters, k) = c)]

\* String.prototype.toLowerCase on one character
LowerChar(c) == IF c \in UpperSet THEN LowerOf[c] ELSE c

\* String.prototype.toLowerCase, character by character (the string is halved
\* at each step to keep the evaluation shallow)
RECURSIVE toLowerCase(_)
toLowerCase(s) ==
    IF Len(s) = 0 THEN ""
    ELSE IF Len(s) = 1 THEN LowerChar(s)
    ELSE toLowerCase(SubSeq(s, 1, Len(s) \div 2))
         \o toLowerCase(SubSeq(s, Len(s) \div 2 + 1, Len(s)))

\* RegExp character classes: \s, \w, [.!?], [^,.!?]
IsSpace(c) == c \in {" ", "\n", "\t"}
IsWordChar(c) == c \in WordChars
IsTerminator(c) == c \in {".", "!", "?"}
IsPhraseChar(c) == c \notin {",", ".", "!", "?"}

\* String.prototype.includes
includes(s, sub) ==
    \E p \in 1..(Len(s) - Len(sub) + 1) : SubSeq(s, p, p + Len(sub) - 1) = sub

\* String.prototype.trim
RECURSIVE trimStart(_)
trimStart(s) ==
    IF Len(s) > 0 /\ IsSpace(Char(s, 1)) THEN trimStart(SubSeq(s, 2, Len(s))) ELSE s
RECURSIVE trimEnd(_)
trimEnd(s) ==
    IF Len(s) > 0 /\ IsSpace(Char(s, Len(s))) THEN trimEnd(SubSeq(s, 1, Len(s) - 1)) ELSE s
trim(s) == trimEnd(trimStart(s))

\* One of the separator classes of the two split calls
IsSep(c, class) == IF class = "space" THEN IsSpace(c) ELSE IsTerminator(c)

\* the characters a run is made of: a separator class, the characters of a
\* piece between separators ("word" between spaces, "sentence" between
\* terminators), or the characters of a phrase
InClass(c, class) ==
    CASE class = "space" -> IsSpace(c)
      [] class = "terminator" -> IsTerminator(c)
      [] class = "word" -> ~IsSpace(c)
      [] class = "sentence" -> ~IsTerminator(c)
      [] class = "phrase" -> IsPhraseChar(c)

\* the first position from i on that holds no character of the class
\* (Len(s) + 1 when the run reaches the end of s)
RunStop(s, i, class) ==
    CHOOSE k \in i..(Len(s) + 1) :
        /\ k = Len(s) + 1 \/ ~InClass(Char(s, k), class)
        /\ \A j \in i..(k - 1) : InClass(Char(s, j), class)

\* the non-empty pieces of s between separators that begin in lo..hi, in order
RECURSIVE Pieces(_, _, _, _)
Pieces(s, class, lo, hi) ==
    LET sep(c) == IsSep(c, class)
    IN  IF lo > hi THEN <<>>
        ELSE IF lo = hi
             THEN IF ~sep(Char(s, lo)) /\ (lo = 1 \/ sep(Char(s, lo - 1)))
                  THEN <<SubSeq(s, lo, RunStop(s, lo, IF class = "space" THEN "word"
                                                         ELSE "sentence") - 1)>>
                  ELSE <<>>
             ELSE Pieces(s, class, lo, (lo + hi) \div 2)
                  \o Pieces(s, class, (lo + hi) \div 2 + 1, hi)

\* String.prototype.split(/\s+/) and split(/[.!?]+/): the pieces between the
\* maximal runs of separator characters; a run at either end of s leaves an
\* empty piece there, and the empty string gives one empty piece.
split(s, class) ==
    IF Len(s) = 0 THEN <<"">>
    ELSE (IF IsSep(Char(s, 1), class) THEN <<"">> ELSE <<>>)
         \o Pieces(s, class, 1, Len(s))
         \o (IF IsSep(Char(s, Len(s)), class) THEN <<"">> ELSE <<>>)

\* \b at the gap before position p of s (between characters p-1 and p)
WordAt(s, p) == p >= 1 /\ p <= Len(s) /\ IsWordChar(Char(s, p))
Boundary(s, p) == WordAt(s, p - 1) # WordAt(s, p)

\* the keyword kw stands at position p of s, compared case-insensitively
KeywordAt(s, kw, p) ==
    /\ p + Len(kw) - 1 <= Len(s)
    /\ toLowerCase(SubSeq(s, p, p + Len(kw) - 1)) = kw

\* ------------------------------------------------------------------------
\* The descriptions of the input tasks
\* ------------------------------------------------------------------------
RECURSIVE Repeat(_, _)
Repeat(s, k) == IF k = 0 THEN "" ELSE s \o Repeat(s, k - 1)

\* more than 500 characters, no trigger word
LongText == Repeat("Refactor the data layer, then test it. ", 14)

\* the descriptions of the input tasks: absent, empty, and texts for each
\* decomposition strategy
Descriptions ==
    <<None,
      Some(""),
      Some("implement the login form and create the session API"),
      Some("Add feature search. Then add functionality export, quickly! No more feature"),
      Some("New feature"),
      Some("Optimize the Implementation of every feature"),
      Some("improve speed"),
      Some("Plain words only"),
      Some("Functionality! ADD\tBig Charts, add more? add  ,x. readd y"),
      Some(LongText)>>

\* ------------------------------------------------------------------------
\* FractalAlgorithm: text analysis
\* ------------------------------------------------------------------------
\* the alternatives of the two keyword patterns, in pattern order
TechnicalTerms ==
    <<"implement", "develop", "create", "integrate", "optimize", "refactor", "test">>
FeatureVerbs == <<"implement", "add", "create", "develop">>

\* /\b(k1|k2|...)\b/i matches at position p of s.  No keyword is the
\* beginning of another, so at most one alternative stands at p.
WholeWordAt(s, kws, p) ==
    /\ Boundary(s, p)
    /\ \E k \in 1..Len(kws) :
          /\ KeywordAt(s, kws[k], p)
          /\ Boundary(s, p + Len(kws[k]))

\* text.match(/\b(...)\b/gi): the number of matches.  Two matches never
\* overlap (each is a whole word), so every position where the pattern matches
\* is one match of the global scan.
CountMatches(s, kws) == Cardinality({p \in 1..Len(s) : WholeWordAt(s, kws, p)})

\* _analyzeTextComplexity(text), in hundredths
_analyzeTextComplexity(text) ==
    LET words == Len(split(text, "space"))
        sentences == Len(split(text, "terminator"))
        technicalTerms == CountMatches(text, TechnicalTerms)
    IN  Min(500, words * 2 + sentences * 20 + technicalTerms * 50)

\* _identifyPatterns(task): the tags in the order they are pushed
_identifyPatterns(task) ==
    LET description == IF IsSome(task.description)
                       THEN toLowerCase(Get(task.description)) ELSE ""
        core == IF \/ includes(description, "implement")
                   \/ includes(description, "develop")
                   \/ includes(description, "create")
                THEN <<"core-components">> ELSE <<>>
        feat == IF \/ includes(description, "feature")
                   \/ includes(description, "functionality")
                THEN <<"feature-breakdown">> ELSE <<>>
        opt  == IF \/ includes(description, "improve")
                   \/ includes(description, "optimize")
                THEN <<"optimization">> ELSE <<>>
    IN  core \o feat \o opt

\* Array.prototype.includes on the list of tags
HasPattern(patterns, tag) == \E k \in 1..Len(patterns) : patterns[k] = tag

\* \s+([^,.!?]+) from position q of s, where stop is the first position from
\* q on that holds no white space: <<phrase>> (capture group 2), or <<>> when
\* it does not match.  \s+ is greedy: it takes the whole run, and gives its
\* last character back to [^,.!?]+ when no phrase character follows the run.
PhraseAfter(s, q, stop) ==
    IF stop = q THEN <<>>
    ELSE IF stop <= Len(s) /\ IsPhraseChar(Char(s, stop))
         THEN <<SubSeq(s, stop, RunStop(s, stop, "phrase") - 1)>>
         ELSE IF stop - q >= 2 THEN <<Char(s, stop - 1)>> ELSE <<>>

\* /\b(implement|add|create|develop)\s+([^,.!?]+)/i tried at position p of a
\* sentence: <<phrase>> when it matches there, <<>> otherwise.  The verbs begin
\* with different letters, so at most one alternative stands at p.
FeatureAt(s, p) ==
    IF Boundary(s, p) /\ \E k \in 1..Len(FeatureVerbs) : KeywordAt(s, FeatureVerbs[k], p)
    THEN PhraseAfter(s,
             p + Len(FeatureVerbs[CHOOSE k \in 1..Len(FeatureVerbs) :
                                      KeywordAt(s, FeatureVerbs[k], p)]),
             RunStop(s,
                 p + Len(FeatureVerbs[CHOOSE k \in 1..Len(FeatureVerbs) :
                                          KeywordAt(s, FeatureVerbs[k], p)]),
                 "space"))
    ELSE <<>>

\* sentence.match(...): the leftmost match from position p on, <<>> when
\* there is none; found is the match tried at p
RECURSIVE FeatureFrom(_, _)
OrFurther(found, s, p) == IF found # <<>> THEN found ELSE FeatureFrom(s, p + 1)
FeatureFrom(s, p) ==
    IF p > Len(s) THEN <<>> ELSE OrFurther(FeatureAt(s, p), s, p)
FeatureMatch(s) == FeatureFrom(s, 1)

\* if (feature) features.push(feature[2].trim()): what one sentence adds
Pushed(feature) == IF feature # <<>> THEN <<trim(feature[1])>> ELSE <<>>

\* (mutant) the phrase is pushed as matched, not trimmed
RECURSIVE PushFeatures_untrimmed(_)
PushFeatures_untrimmed(sentences) ==
    IF Len(sentences) = 0 THEN <<>>
    ELSE FeatureMatch(Head(sentences)) \o PushFeatures_untrimmed(Tail(sentences))

\* the forEach over the sentences: the features pushed, in sentence order
RECURSIVE PushFeatures(_)
PushFeatures(sentences) ==
    IF Len(sentences) = 0 THEN <<>>
    ELSE Pushed(FeatureMatch(Head(sentences))) \o PushFeatures(Tail(sentences))

\* features.length > 0 ? features : ['Core Feature']
OrCoreFeature(features) == IF Len(features) > 0 THEN features ELSE <<"Core Feature">>

\* _extractFeatures(description)
_extractFeatures(description) ==
    OrCoreFeature(PushFeatures(split(description, "terminator")))

\* The text analysis of every input description, computed once: the three
\* functions are applied to the descriptions of the input tasks only
TextAnalysis ==
    [d \in {Descriptions[k] : k \in 1..Len(Descriptions)} |->
        [complexity |-> IF IsSome(d) THEN _analyzeTextComplexity(Get(d)) ELSE 0,
         patterns |-> _identifyPatterns([description |-> d]),
         features |-> IF IsSome(d) THEN _extractFeatures(Get(d)) ELSE <<>>]]

\* ------------------------------------------------------------------------
\* FractalNode
\* ------------------------------------------------------------------------
\* JavaScript truthiness of an optional string field: absent and "" are falsy
Truthy(field) == IsSome(field) /\ Get(field) # ""

\* Math.cos and Math.sin of angleStep * index, where angleStep = 2 * PI / n,
\* in thousandths
CosTable ==
    <<<<1000>>,
      <<1000, -1000>>,
      <<1000, -500, -500>>,
      <<1000, 0, -1000, 0>>,
      <<1000, 309, -809, -809, 309>>,
      <<1000, 500, -500, -1000, -500, 500>>,
      <<1000, 623, -223, -901, -901, -223, 623>>,
      <<1000, 707, 0, -707, -1000, -707, 0, 707>>>>
SinTable ==
    <<<<0>>,
      <<0, 0>>,
      <<0, 866, -866>>,
      <<0, 1000, 0, -1000>>,
      <<0, 951, 588, -588, -951>>,
      <<0, 866, 866, 0, -866, -866>>,
      <<0, 782, 975, 434, -434, -975, -782>>,
      <<0, 707, 1000, 707, 0, -707, -1000, -707>>>>
Cos(index, n) == CosTable[n][index + 1]
Sin(index, n) == SinTable[n][index + 1]

\* (mutant) the score is not clamped to 10
calculateComplexity_unclamped(task) ==
    LET bySize == IF Truthy(task.description)
                  THEN Min(500, Len(Get(task.description))) ELSE 0
        bySubtasks == IF IsSome(task.subtasks)
                      THEN 100 * Len(Get(task.subtasks)) ELSE 0
    IN  100 + bySize + bySubtasks

\* calculateComplexity(task), in hundredths
calculateComplexity(task) ==
    LET bySize == IF Truthy(task.description)
                  THEN Min(500, Len(Get(task.description))) ELSE 0
        bySubtasks == IF IsSome(task.subtasks)
                      THEN 100 * Len(Get(task.subtasks)) ELSE 0
    IN  Min(1000, 100 + bySize + bySubtasks)

\* new FractalNode(task, depth)
FractalNode(task, depth) ==
    [task |-> task,
     depth |-> depth,
     children |-> <<>>,
     position |-> [x |-> 0, y |-> 0, z |-> 0],
     size |-> <<1, 1>>,                            \* 1.0, as a fraction
     complexity |-> calculateComplexity(task)]

\* (mutant) the radius has no floor
Radius_unfloored(n) == n * 2

\* radius of the ring of n children, in tenths: Math.max(0.5, n * 0.2)
Radius(n) == Max(5, n * 2)

\* (mutant) a node with no children sinks by the 0.5 of a level
RECURSIVE updateLayout_sinking(_)
updateLayout_sinking(node) ==
    LET n == Len(node.children)
        radius == Radius(n)
        placed(index) ==
            [node.children[index + 1] EXCEPT
                !.position = [x |-> node.position.x + Cos(index, n) * radius,
                              y |-> node.position.y - 5000,
                              z |-> node.position.z + Sin(index, n) * radius]]
    IN  IF n = 0 THEN [node EXCEPT !.position.y = @ - 5000]
        ELSE [node EXCEPT !.children = [k \in 1..n |-> updateLayout_sinking(placed(k - 1))]]

\* updateLayout(): places the children on the ring around the node and lays
\* out each child's subtree in turn.  With no children the forEach has nothing
\* to visit (angleStep, 2 * PI / 0, is Infinity and is never used).
RECURSIVE updateLayout(_)
updateLayout(node) ==
    LET n == Len(node.children)
        radius == Radius(n)
        placed(index) ==
            [node.children[index + 1] EXCEPT
                !.position = [x |-> node.position.x + Cos(index, n) * radius,
                              y |-> node.position.y - 5000,
                              z |-> node.position.z + Sin(index, n) * radius]]
    IN  [node EXCEPT !.children = [k \in 1..n |-> updateLayout(placed(k - 1))]]

\* (mutant) the child is put in front of its siblings
addChild_unshift(node, child) ==
    updateLayout([node EXCEPT !.children = <<child>> \o @])

\* (mutant) the child is appended and the layout is left as it was
addChild_noLayout(node, child) ==
    [node EXCEPT !.children = Append(@, child)]

\* addChild(child)
addChild(node, child) ==
    updateLayout([node EXCEPT !.children = Append(@, child)])

\* ------------------------------------------------------------------------
\* FractalAlgorithm: tree construction
\* ------------------------------------------------------------------------
maxDepth == 5

\* _buildTree(task, depth); AddSubtasks is its forEach over task.subtasks,
\* from the k-th subtask on
RECURSIVE _buildTree(_, _)
RECURSIVE AddSubtasks(_, _, _, _)
AddSubtasks(node, subtasks, depth, k) ==
    IF k > Len(subtasks) THEN node
    ELSE AddSubtasks(addChild(node, _buildTree(subtasks[k], depth + 1)),
                     subtasks, depth, k + 1)

\* (mutant) the depth test is off by one: <= for <
_buildTree_offByOne(task, depth) ==
    LET node == FractalNode(task, depth)
    IN  IF depth <= maxDepth /\ IsSome(task.subtasks)
        THEN AddSubtasks(node, Get(task.subtasks), depth, 1)
        ELSE node

_buildTree(task, depth) ==
    LET node == FractalNode(task, depth)
    IN  IF depth < maxDepth /\ IsSome(task.subtasks)
        THEN AddSubtasks(node, Get(task.subtasks), depth, 1)
        ELSE node

\* the fixed anchor of the root, (0, 2, 0)
Anchor == [x |-> 0, y |-> 20000, z |-> 0]

\* (mutant) the tree is not laid out again once the root is anchored
createFractalTree_noRelayout(task) ==
    LET built == _buildTree(task, 0)
    IN  [built EXCEPT !.position = Anchor]

\* createFractalTree(task): the value assigned to this.root and returned
createFractalTree(task) ==
    LET built == _buildTree(task, 0)
    IN  updateLayout([built EXCEPT !.position = Anchor])

\* ------------------------------------------------------------------------
\* FractalAlgorithm: decomposition
\* ------------------------------------------------------------------------
\* one unit of _analyzeComplexity: halving once per level of the deepest input
\* task stays exact
AUnit == 100 * Pow2(maxDepth + MaxOver)

\* (mutant) a subtask's own score is added whole, not halved
RECURSIVE _analyzeComplexity_unweighted(_)
_analyzeComplexity_unweighted(task) ==
    LET byText == IF Truthy(task.description)
                  THEN TextAnalysis[task.description].complexity * (AUnit \div 100)
                  ELSE 0
        subtasks == Get(task.subtasks)
        bySubtasks ==
            IF IsSome(task.subtasks)
            THEN Len(subtasks) * AUnit
                 + SumSeq([k \in 1..Len(subtasks) |->
                              _analyzeComplexity_unweighted(subtasks[k])])
            ELSE 0
        byDependencies == IF IsSome(task.dependencies)
                          THEN Len(Get(task.dependencies)) * (AUnit \div 2) ELSE 0
    IN  Min(10 * AUnit, AUnit + byText + bySubtasks + byDependencies)

\* _analyzeComplexity(task), in 1/AUnit
RECURSIVE _analyzeComplexity(_)
_analyzeComplexity(task) ==
    LET byText == IF Truthy(task.description)
                  THEN TextAnalysis[task.description].complexity * (AUnit \div 100)
                  ELSE 0
        subtasks == Get(task.subtasks)
        bySubtasks ==
            IF IsSome(task.subtasks)
            THEN Len(subtasks) * AUnit
                 + SumSeq([k \in 1..Len(subtasks) |->
                              _analyzeComplexity(subtasks[k]) \div 2])
            ELSE 0
        byDependencies == IF IsSome(task.dependencies)
                          THEN Len(Get(task.dependencies)) * (AUnit \div 2) ELSE 0
    IN  Min(10 * AUnit, AUnit + byText + bySubtasks + byDependencies)

\* `Phase ${i + 1}` for the loop index i
PhaseTitle(i) == "Phase " \o Char("123456789", i + 1)

\* (mutant) the half is rounded down
CeilHalf_floor(complexity) == complexity \div (2 * AUnit)

\* Math.ceil(complexity / 2) for a complexity in 1/AUnit
CeilHalf(complexity) == (complexity + 2 * AUnit - 1) \div (2 * AUnit)

\* (mutant) the feature-breakdown pattern is looked for first
SubtaskCalls_featureFirst(task) ==
    LET complexity == _analyzeComplexity(task)
        patterns == TextAnalysis[task.description].patterns
    IN  IF HasPattern(patterns, "feature-breakdown")
        THEN LET features == TextAnalysis[task.description].features
             IN  [k \in 1..Len(features) |->
                     [title |-> features[k], factor |-> Frac(1, Len(features))]]
        ELSE IF HasPattern(patterns, "core-components")
        THEN <<[title |-> "Research & Planning", factor |-> Frac(2, 10)],
               [title |-> "Core Implementation", factor |-> Frac(4, 10)],
               [title |-> "Testing & Validation", factor |-> Frac(2, 10)],
               [title |-> "Documentation", factor |-> Frac(2, 10)]>>
        ELSE LET numSubtasks == Max(2, Min(5, CeilHalf(complexity)))
             IN  [k \in 1..numSubtasks |->
                     [title |-> PhaseTitle(k - 1), factor |-> Frac(1, numSubtasks)]]

\* The _createSubtask calls suggestDecomposition makes, in order: the title
\* and the complexityFactor of each
SubtaskCalls(task) ==
    LET complexity == _analyzeComplexity(task)
        patterns == TextAnalysis[task.description].patterns
    IN  IF HasPattern(patterns, "core-components")
        THEN <<[title |-> "Research & Planning", factor |-> Frac(2, 10)],
               [title |-> "Core Implementation", factor |-> Frac(4, 10)],
               [title |-> "Testing & Validation", factor |-> Frac(2, 10)],
               [title |-> "Documentation", factor |-> Frac(2, 10)]>>
        ELSE IF HasPattern(patterns, "feature-breakdown")
        THEN LET features == TextAnalysis[task.description].features
             IN  [k \in 1..Len(features) |->
                     [title |-> features[k], factor |-> Frac(1, Len(features))]]
        ELSE LET numSubtasks == Max(2, Min(5, CeilHalf(complexity)))
             IN  [k \in 1..numSubtasks |->
                     [title |-> PhaseTitle(k - 1), factor |-> Frac(1, numSubtasks)]]

\* _createSubtask(parentTask, title, complexityFactor) when Date.now() reads
\* reading.now and Math.random() draws reading.random.  The complexity is
\* <<>> (NaN) when the parent has no complexity field, else <<c>> with c the
\* product in hundredths, as a fraction.
_createSubtask(parentTask, title, complexityFactor, reading) ==
    [id |-> reading.now + reading.random,
     title |-> title,
     description |-> "Part of: " \o parentTask.title,
     status |-> "Not Started",
     parentId |-> parentTask.id,
     complexity |-> IF IsSome(parentTask.complexity)
                    THEN Some(Frac(Get(parentTask.complexity) * complexityFactor[1],
                                   complexityFactor[2]))
                    ELSE None,
     created |-> reading.now]

\* suggestDecomposition(task), the k-th _createSubtask call taking readings[k]
suggestDecomposition(task, readings) ==
    LET calls == SubtaskCalls(task)
    IN  [k \in 1..Len(calls) |->
            _createSubtask(task, calls[k].title, calls[k].factor, readings[k])]

\* ------------------------------------------------------------------------
\* FractalAlgorithm: visual properties
\* ------------------------------------------------------------------------
\* this.minTaskSize, 0.1
minTaskSize == <<1, 10>>

\* 0.5 + complexity / 20 for a complexity in hundredths
Intensity(complexity) == Frac(1000 + complexity, 2000)

\* (mutant) the size does not depend on the depth
_calculateSize_flat(node) == FracMax(minTaskSize, Intensity(node.complexity))

\* _calculateSize(node)
_calculateSize(node) ==
    LET depthFactor == <<Pow(4, node.depth), Pow(5, node.depth)>>     \* 0.8 ^ depth
        complexityFactor == Intensity(node.complexity)
    IN  FracMax(minTaskSize, Frac(depthFactor[1] * complexityFactor[1],
                                  depthFactor[2] * complexityFactor[2]))

baseColors ==
    [s \in {"Not Started", "In Progress", "Completed", "Blocked"} |->
        CASE s = "Not Started" -> [r |-> 128, g |-> 128, b |-> 128]
          [] s = "In Progress" -> [r |-> 79, g |-> 70, b |-> 229]
          [] s = "Completed" -> [r |-> 34, g |-> 197, b |-> 94]
          [] s = "Blocked" -> [r |-> 239, g |-> 68, b |-> 68]]

\* node.task.status || 'Not Started'
StatusOf(node) ==
    IF Truthy(node.task.status) THEN Get(node.task.status) ELSE "Not Started"

\* _calculateColor throws a TypeError (color is undefined) when the status is
\* no key of baseColors
ColorThrows(node) == StatusOf(node) \notin DOMAIN baseColors

\* _calculateColor(node), when it does not throw
_calculateColor(node) ==
    LET color == baseColors[StatusOf(node)]
        intensity == Intensity(node.complexity)
        channel(base) == FracMin(<<255, 1>>, Frac(base * intensity[1], intensity[2]))
    IN  [r |-> channel(color.r), g |-> channel(color.g), b |-> channel(color.b)]

\* (mutant) the strength is not clamped
_calculateConnectionStrength_unclamped(parent, child) ==
    Frac((maxDepth - child.depth) * (parent.complexity + child.complexity),
         maxDepth * 2000)

\* (mutant) the strength has no floor
_calculateConnectionStrength_noFloor(parent, child) ==
    LET depthFactor == Frac(maxDepth - child.depth, maxDepth)
        complexityFactor == Frac(parent.complexity + child.complexity, 2000)
        product == Frac(depthFactor[1] * complexityFactor[1],
                        depthFactor[2] * complexityFactor[2])
    IN  FracMin(<<1, 1>>, product)

\* _calculateConnectionStrength(parent, child)
_calculateConnectionStrength(parent, child) ==
    LET depthFactor == Frac(maxDepth - child.depth, maxDepth)
        complexityFactor == Frac(parent.complexity + child.complexity, 2000)
        product == Frac(depthFactor[1] * complexityFactor[1],
                        depthFactor[2] * complexityFactor[2])
    IN  FracMax(<<1, 5>>, FracMin(<<1, 1>>, product))

\* (mutant) the edges inside a child's subtree come before the edge into it
RECURSIVE _calculateConnections_childLast(_)
_calculateConnections_childLast(node) ==
    Concat([k \in 1..Len(node.children) |->
               _calculateConnections_childLast(node.children[k])
               \o <<[from |-> node.position,
                     to |-> node.children[k].position,
                     strength |-> _calculateConnectionStrength(node, node.children[k])]>>])

\* _calculateConnections(node)
RECURSIVE _calculateConnections(_)
_calculateConnections(node) ==
    Concat([k \in 1..Len(node.children) |->
               <<[from |-> node.position,
                  to |-> node.children[k].position,
                  strength |-> _calculateConnectionStrength(node, node.children[k])]>>
               \o _calculateConnections(node.children[k])])

\* generateVisualization(node), when _calculateColor does not throw
generateVisualization(node) ==
    [size |-> _calculateSize(node),
     color |-> _calculateColor(node),
     position |-> node.position,
     connections |-> _calculateConnections(node)]

\* ------------------------------------------------------------------------
\* Trees: nodes and tasks by path (the child indices from the root, 1-based)
\* ------------------------------------------------------------------------
RECURSIVE Paths(_)
Paths(node) ==
    {<<>>} \cup UNION {{<<k>> \o p : p \in Paths(node.children[k])} :
                          k \in 1..Len(node.children)}

RECURSIVE NodeAt(_, _)
NodeAt(node, path) ==
    IF Len(path) = 0 THEN node ELSE NodeAt(node.children[Head(path)], Tail(path))

RECURSIVE TaskAt(_, _)
TaskAt(task, path) ==
    IF Len(path) = 0 THEN task ELSE TaskAt(Get(task.subtasks)[Head(path)], Tail(path))

NumSubtasks(task) == IF IsSome(task.subtasks) THEN Len(Get(task.subtasks)) ELSE 0

RECURSIVE TaskPaths(_)
TaskPaths(task) ==
    {<<>>} \cup UNION {{<<k>> \o p : p \in TaskPaths(Get(task.subtasks)[k])} :
                          k \in 1..NumSubtasks(task)}

\* the tree with the node at path replaced
RECURSIVE ReplaceAt(_, _, _)
ReplaceAt(node, path, new) ==
    IF Len(path) = 0 THEN new
    ELSE [node EXCEPT !.children[Head(path)] = ReplaceAt(@, Tail(path), new)]

\* ------------------------------------------------------------------------
\* Input tasks
\* ------------------------------------------------------------------------
Statuses ==
    <<Some("Not Started"), Some("In Progress"), Some("Completed"), Some("Blocked"),
      None, Some("Archived")>>

DependencyLists == <<None, Some(<<>>), Some(<<"d1">>), Some(<<"d1", "d2", "d3">>)>>

\* the complexity field of a task (absent from the task store's tasks), in
\* hundredths
Complexities == <<None, Some(300), Some(1000)>>

\* The shape of a task: its subtasks field, None or Some(<<shape, ...>>)
RECURSIVE Chain(_)
Chain(k) == IF k = 0 THEN None ELSE Some(<<Chain(k - 1)>>)

Star(w) == Some([k \in 1..w |-> None])

RECURSIVE Full(_, _)
Full(w, d) == IF d = 0 THEN Some(<<>>) ELSE Some([k \in 1..w |-> Full(w, d - 1)])

\* a spine of k levels, every task on it with w subtasks, the last of them the
\* next task of the spine
RECURSIVE Comb(_, _)
Comb(k, w) ==
    IF k = 0 THEN None
    ELSE Some([j \in 1..w |-> IF j = w THEN Comb(k - 1, w) ELSE None])

\* three subtasks: the first with one subtask, the second with two, the third
\* with none
Mixed == Some(<<Chain(1), Star(2), None>>)

Shapes ==
    {Chain(k) : k \in 0..(maxDepth + MaxOver)}
    \cup {Star(w) : w \in 1..MaxWidth}
    \cup {Full(2, 2), Full(3, 2), Full(0, 0), Comb(3, 3), Comb(maxDepth + MaxOver, 2),
          Mixed}

\* The task of a shape: the fields of the task at path are picked by
\* seed + the length of the path + the sum of its indices, so that the tasks
\* of one tree differ and every seed puts another description at the root
RECURSIVE PathDigits(_)
PathDigits(path) ==
    IF Len(path) = 0 THEN ""
    ELSE Char("123456789", Head(path)) \o PathDigits(Tail(path))

RECURSIVE MkTask(_, _, _)
MkTask(shape, seed, path) ==
    LET pick == seed + Len(path) + SumSeq(path)
        id == "t" \o PathDigits(path)
    IN  [id |-> id,
         title |-> "Task " \o id,
         description |-> Descriptions[(pick % Len(Descriptions)) + 1],
         status |-> Statuses[(pick % Len(Statuses)) + 1],
         dependencies |-> DependencyLists[(pick % Len(DependencyLists)) + 1],
         complexity |-> Complexities[(pick % Len(Complexities)) + 1],
         subtasks |-> IF IsSome(shape)
                      THEN Some([k \in 1..Len(Get(shape)) |->
                                    MkTask(Get(shape)[k], seed, Append(path, k))])
                      ELSE None]

Seeds == 0..(Len(Descriptions) - 1)

\* a task with no description and no subtasks, with these dependencies
Bare(dependencies) ==
    [MkTask(None, 0, <<>>) EXCEPT !.dependencies = dependencies]

\* every shape with one labelling, five shapes with every labelling, and the
\* bare task with one dependency and with seven
Tasks ==
    {MkTask(shape, 0, <<>>) : shape \in Shapes}
    \cup {MkTask(shape, seed, <<>>) :
             shape \in {Chain(0), Chain(2), Full(2, 2), Star(MaxWidth),
                        Comb(3, MaxWidth)},
             seed \in Seeds}
    \cup {Bare(Some(<<"d1">>)),
          Bare(Some(<<"d1", "d2", "d3", "d4", "d5", "d6", "d7">>))}

\* a second task of the host, passed to the same FractalAlgorithm object
OtherTask == MkTask(Star(2), 3, <<>>)

\* Date.now() and Math.random() of the _createSubtask calls of one
\* suggestDecomposition call: the draws all differ, or all coincide
Readings(n) ==
    {[k \in 1..n |-> [now |-> 1000 * n, random |-> k - 1]],
     [k \in 1..n |-> [now |-> 1000 * n, random |-> 0]]}

\* ------------------------------------------------------------------------
\* The state of the other components: the task store and the service worker
\* ------------------------------------------------------------------------
VARIABLES
    store,       \* TaskManager.tasks: the stored tasks, in insertion order
    saved,       \* localStorage['focusar-tasks']: None, or Some(JSON text)
    listeners,   \* TaskManager.listeners
    lastOp       \* the last TaskManager call: its name, the id deleteTask was
                 \* given, whether it threw, and the lists each listener was
                 \* called with during it

storeVars == <<store, saved, listeners, lastOp>>

VARIABLES
    swPhase,     \* the service worker: "new", "installed", "activated" or
                 \* "redundant"
    swCache,     \* the requests that have a response in the cache focusar-cache-v1
    network,     \* the network is available
    fetched      \* the last fetch event: its request, whether the network was
                 \* available, and what respondWith was resolved with

workerVars == <<swPhase, swCache, network, fetched>>

\* the state of the components a specification leaves alone
elsewhere == <<storeVars, workerVars>>

\* a TaskManager just constructed, nothing in localStorage
StoreIdle ==
    /\ store = <<>>
    /\ saved = None
    /\ listeners = {}
    /\ lastOp = [op |-> "new", arg |-> "", threw |-> FALSE, heard |-> <<>>]

\* a service worker just registered, nothing cached, the network available
WorkerIdle ==
    /\ swPhase = "new"
    /\ swCache = {}
    /\ network = TRUE
    /\ fetched = [url |-> "", mode |-> "", online |-> TRUE, response |-> ""]

\* ------------------------------------------------------------------------
\* The state machine: a host holding a task and one FractalAlgorithm object
\* ------------------------------------------------------------------------
VARIABLES
    hostTask,    \* the host's task object, passed by reference to the calls
    given,       \* history: the host's task as it was before any call
    root,        \* this.root: None, or Some(node)
    result,      \* the last call: its name, its argument and what it returned
    firstTree,   \* history: what the first createFractalTree(hostTask) returned
    between      \* history: another call was made since that first call

fractalVars == <<hostTask, given, root, result, firstTree, between>>

vars == <<fractalVars, storeVars, workerVars>>

Init ==
    /\ hostTask \in Tasks
    /\ given = hostTask
    /\ root = None
    /\ result = [op |-> "new", arg |-> "none", threw |-> FALSE, value |-> None]
    /\ firstTree = None
    /\ between = FALSE
    /\ StoreIdle
    /\ WorkerIdle

Argument(arg) == IF arg = "task" THEN hostTask ELSE OtherTask

\* (mutant) only the first tree of the object is anchored and laid out again
CreateFractalTree_anchorsOnce(arg) ==
    LET tree == IF IsSome(root) THEN _buildTree(Argument(arg), 0)
                ELSE createFractalTree(Argument(arg))
    IN  /\ root' = Some(tree)
        /\ result' = [op |-> "createFractalTree", arg |-> arg, threw |-> FALSE,
                      value |-> Some(tree)]
        /\ firstTree' = IF arg = "task" /\ firstTree = None THEN Some(tree)
                        ELSE firstTree
        /\ between' = (between \/ (arg = "other" /\ IsSome(firstTree)))
        /\ UNCHANGED <<elsewhere, hostTask, given>>

\* createFractalTree(task) on the host's task or on the other task
CreateFractalTree(arg) ==
    LET tree == createFractalTree(Argument(arg))
    IN  /\ root' = Some(tree)
        /\ result' = [op |-> "createFractalTree", arg |-> arg, threw |-> FALSE,
                      value |-> Some(tree)]
        /\ firstTree' = IF arg = "task" /\ firstTree = None THEN Some(tree)
                        ELSE firstTree
        /\ between' = (between \/ (arg = "other" /\ IsSome(firstTree)))
        /\ UNCHANGED <<elsewhere, hostTask, given>>

\* _analyzeComplexity(task) on the host's task or on the other task
AnalyzeComplexity(arg) ==
    /\ result' = [op |-> "_analyzeComplexity", arg |-> arg, threw |-> FALSE,
                  value |-> Some(_analyzeComplexity(Argument(arg)))]
    /\ between' = (between \/ IsSome(firstTree))
    /\ UNCHANGED <<elsewhere, hostTask, given, root, firstTree>>

\* (mutant) the stubs are attached to the task as its subtasks
SuggestDecomposition_attaching(arg) ==
    \E readings \in Readings(Len(SubtaskCalls(Argument(arg)))) :
        LET stubs == suggestDecomposition(Argument(arg), readings)
        IN  /\ result' = [op |-> "suggestDecomposition", arg |-> arg, threw |-> FALSE,
                          value |-> Some(stubs)]
            /\ hostTask' = IF arg = "task"
                           THEN [hostTask EXCEPT !.subtasks = Some(stubs)]
                           ELSE hostTask
            /\ between' = (between \/ IsSome(firstTree))
            /\ UNCHANGED <<elsewhere, given, root, firstTree>>

\* suggestDecomposition(task) on the host's task or on the other task
SuggestDecomposition(arg) ==
    \E readings \in Readings(Len(SubtaskCalls(Argument(arg)))) :
        /\ result' = [op |-> "suggestDecomposition", arg |-> arg, threw |-> FALSE,
                      value |-> Some(suggestDecomposition(Argument(arg), readings))]
        /\ between' = (between \/ IsSome(firstTree))
        /\ UNCHANGED <<elsewhere, hostTask, given, root, firstTree>>

\* generateVisualization(node) on a node of the tree the last
\* createFractalTree call returned
GenerateVisualization(path) ==
    LET node == NodeAt(Get(root), path)
    IN  /\ result' = IF ColorThrows(node)
                     THEN [op |-> "generateVisualization", arg |-> path,
                           threw |-> TRUE, value |-> None]
                     ELSE [op |-> "generateVisualization", arg |-> path,
                           threw |-> FALSE, value |-> Some(generateVisualization(node))]
        /\ between' = (between \/ IsSome(firstTree))
        /\ UNCHANGED <<elsewhere, hostTask, given, root, firstTree>>

\* _identifyPatterns(task) on the host's task or on the other task
IdentifyPatterns(arg) ==
    /\ result' = [op |-> "_identifyPatterns", arg |-> arg, threw |-> FALSE,
                  value |-> Some(TextAnalysis[Argument(arg).description].patterns)]
    /\ between' = (between \/ IsSome(firstTree))
    /\ UNCHANGED <<elsewhere, hostTask, given, root, firstTree>>

\* _analyzeTextComplexity(task.description) on the description of the host's
\* task or of the other task, without the guard of _analyzeComplexity:
\* text.split throws a TypeError when the description is absent (undefined)
AnalyzeTextComplexity(arg) ==
    LET text == Argument(arg).description
    IN  /\ result' = IF IsSome(text)
                     THEN [op |-> "_analyzeTextComplexity", arg |-> arg,
                           threw |-> FALSE,
                           value |-> Some(TextAnalysis[text].complexity)]
                     ELSE [op |-> "_analyzeTextComplexity", arg |-> arg,
                           threw |-> TRUE, value |-> None]
        /\ between' = (between \/ IsSome(firstTree))
        /\ UNCHANGED <<elsewhere, hostTask, given, root, firstTree>>

\* node.updateLayout() on a node of the tree the last createFractalTree call
\* returned.  The method has no statement that throws: with no children
\* 2 * Math.PI / 0 is Infinity, a number, and the forEach visits nothing.
UpdateLayout(path) ==
    /\ root' = Some(ReplaceAt(Get(root), path, updateLayout(NodeAt(Get(root), path))))
    /\ result' = [op |-> "updateLayout", arg |-> path, threw |-> FALSE, value |-> None]
    /\ between' = (between \/ IsSome(firstTree))
    /\ UNCHANGED <<elsewhere, hostTask, given, firstTree>>

Next ==
    \/ \E arg \in {"task", "other"} : CreateFractalTree(arg)
    \/ \E arg \in {"task", "other"} : AnalyzeComplexity(arg)
    \/ \E arg \in {"task", "other"} : IdentifyPatterns(arg)
    \/ \E arg \in {"task", "other"} : AnalyzeTextComplexity(arg)
    \/ \E arg \in {"task", "other"} : SuggestDecomposition(arg)
    \/ \E path \in (IF IsSome(root) THEN Paths(Get(root)) ELSE {}) :
           GenerateVisualization(path)
    \/ \E path \in (IF IsSome(root) THEN Paths(Get(root)) ELSE {}) :
           UpdateLayout(path)

Spec == Init /\ [][Next]_vars

\* ------------------------------------------------------------------------
\* A host that grows the tree by addChild
\* ------------------------------------------------------------------------
\* a host with one of these tasks and a new FractalAlgorithm object, the
\* store and the service worker left alone
HostInit(tasks) ==
    /\ hostTask \in tasks
    /\ given = hostTask
    /\ root = None
    /\ result = [op |-> "new", arg |-> "none", threw |-> FALSE, value |-> None]
    /\ firstTree = None
    /\ between = FALSE
    /\ StoreIdle
    /\ WorkerIdle

MaxGrown == 6      \* most nodes of a tree that addChild is still called on

\* the tasks of the nodes given to addChild: one without subtasks, one with
\* two, one with a subtask that has a subtask
ChildTasks == {MkTask(shape, 1, <<9>>) : shape \in {None, Star(2), Chain(2)}}

\* the tasks the tree is created from
GrownTasks == {MkTask(shape, 0, <<>>) : shape \in {None, Chain(1), Mixed}}

\* node.addChild(child) on the node at path of the tree, child being the
\* tree built from a task one level below the node, its own subtree laid out
\* around (0, 0, 0)
AddChild(path, task) ==
    LET node == NodeAt(Get(root), path)
        child == _buildTree(task, node.depth + 1)
    IN  /\ Cardinality(Paths(Get(root))) <= MaxGrown
        /\ Len(node.children) < MaxWidth
        /\ root' = Some(ReplaceAt(Get(root), path, addChild(node, child)))
        /\ result' = [op |-> "addChild", arg |-> path, threw |-> FALSE,
                      value |-> Some(child)]
        /\ between' = (between \/ IsSome(firstTree))
        /\ UNCHANGED <<elsewhere, hostTask, given, firstTree>>

GrowNext ==
    \/ CreateFractalTree("task")
    \/ \E path \in (IF IsSome(root) THEN Paths(Get(root)) ELSE {}), task \in ChildTasks :
           AddChild(path, task)

GrowSpec == HostInit(GrownTasks) /\ [][GrowNext]_vars

\* ------------------------------------------------------------------------
\* The work of createFractalTree: one step for every assignment to
\* child.position in updateLayout
\* ------------------------------------------------------------------------
MaxFan == 12       \* widest list of subtasks among the tasks whose work is counted

\* the subtasks of a task at this depth that _buildTree makes nodes of
Built(task, depth) ==
    IF depth < maxDepth /\ IsSome(task.subtasks) THEN Get(task.subtasks) ELSE <<>>

\* the number of nodes of _buildTree(task, depth)
RECURSIVE NodeCount(_, _)
NodeCount(task, depth) ==
    1 + SumSeq([k \in 1..Len(Built(task, depth)) |->
                   NodeCount(Built(task, depth)[k], depth + 1)])

\* the steps of updateLayout() on the node of the task while it has its first
\* n children: each child is placed and laid out in turn, so every node below
\* the node is placed once
updateLayoutSteps(task, depth, n) ==
    SumSeq([k \in 1..n |-> NodeCount(Built(task, depth)[k], depth + 1)])

\* the steps of _buildTree(task, depth): each subtask's tree is built and then
\* added, and every addChild lays the node out with the children it has so far
RECURSIVE _buildTreeSteps(_, _)
_buildTreeSteps(task, depth) ==
    SumSeq([k \in 1..Len(Built(task, depth)) |->
               _buildTreeSteps(Built(task, depth)[k], depth + 1)
               + updateLayoutSteps(task, depth, k)])

\* the steps of createFractalTree(task): the build and the layout from the
\* anchored root
createFractalTreeSteps(task) ==
    _buildTreeSteps(task, 0) + updateLayoutSteps(task, 0, Len(Built(task, 0)))

\* the task of a shape, with no field but its subtasks
RECURSIVE PlainTask(_)
PlainTask(shape) ==
    [id |-> "t", title |-> "Task t", description |-> None, status |-> None,
     dependencies |-> None, complexity |-> None,
     subtasks |-> IF IsSome(shape)
                  THEN Some([k \in 1..Len(Get(shape)) |-> PlainTask(Get(shape)[k])])
                  ELSE None]

\* spines of every length with every width, and full trees
CountedShapes ==
    {Comb(k, w) : k \in 0..(maxDepth + MaxOver), w \in 1..MaxFan}
    \cup {Full(w, d) : w \in 2..3, d \in 1..3}

\* createFractalTree(task) with its steps counted
CountSteps ==
    /\ result.op = "new"
    /\ result' = [op |-> "createFractalTree", arg |-> "task", threw |-> FALSE,
                  value |-> Some([steps |-> createFractalTreeSteps(hostTask),
                                  nodes |-> NodeCount(hostTask, 0)])]
    /\ UNCHANGED <<elsewhere, hostTask, given, root, firstTree, between>>

CostSpec == HostInit({PlainTask(shape) : shape \in CountedShapes}) /\ [][CountSteps]_vars

\* ------------------------------------------------------------------------
\* TaskManager: the task store
\* ------------------------------------------------------------------------
\* the fields of a task object, in the order the form writes them; every
\* field is None (absent) or Some(value)
FieldNames == <<"id", "title", "status", "parentId", "created", "position">>

TaskObject(id, title, status, parentId, created, position) ==
    [id |-> id, title |-> title, status |-> status, parentId |-> parentId,
     created |-> created, position |-> position]

\* this.defaultTasks
defaultTasks ==
    <<TaskObject(Some("demo-1"), Some("Welcome to FocusAR"), Some("Not Started"),
                 None, Some("constructed"), Some("0 0 -1"))>>

\* this.tasks.has(key), this.tasks.get(key): the keys are the ids
has(m, key) == \E i \in 1..Len(m) : m[i].id = Some(key)
get(m, key) == m[CHOOSE i \in 1..Len(m) : m[i].id = Some(key)]

\* this.tasks.set(task.id, task): a new key goes last, a known key keeps its
\* place
set(m, task) ==
    IF has(m, Get(task.id))
    THEN [i \in 1..Len(m) |-> IF m[i].id = task.id THEN task ELSE m[i]]
    ELSE Append(m, task)

\* this.tasks.delete(key)
RECURSIVE delete(_, _)
delete(m, key) ==
    IF Len(m) = 0 THEN <<>>
    ELSE IF Head(m).id = Some(key) THEN Tail(m)
    ELSE <<Head(m)>> \o delete(Tail(m), key)

\* this.tasks.clear(); tasks.forEach(task => this.tasks.set(task.id, task))
RECURSIVE setAll(_, _)
setAll(m, tasks) ==
    IF Len(tasks) = 0 THEN m ELSE setAll(set(m, Head(tasks)), Tail(tasks))

\* the names of the fields an object has
RECURSIVE Present(_, _)
Present(task, names) ==
    IF Len(names) = 0 THEN <<>>
    ELSE (IF IsSome(task[Head(names)]) THEN <<Head(names)>> ELSE <<>>)
         \o Present(task, Tail(names))

\* JSON.stringify of one object: its name/value pairs; an absent (undefined)
\* field is left out
Pairs(task, names) == [k \in 1..Len(names) |-> <<names[k], Get(task[names[k]])>>]

\* JSON.stringify(tasks) and JSON.parse(text), a text being the list of the
\* objects' pair lists
stringify(tasks) == [i \in 1..Len(tasks) |-> Pairs(tasks[i], Present(tasks[i], FieldNames))]

ValueIn(pairs, name) ==
    IF \E k \in 1..Len(pairs) : pairs[k][1] = name
    THEN Some(pairs[CHOOSE k \in 1..Len(pairs) : pairs[k][1] = name][2])
    ELSE None

parse(text) ==
    [i \in 1..Len(text) |->
        [name \in {FieldNames[k] : k \in 1..Len(FieldNames)} |-> ValueIn(text[i], name)]]

validStatuses == {"Not Started", "In Progress", "Completed", "Blocked"}

\* (mutant) a parent that is not stored is accepted
validateTask_anyParent(m, task) ==
    /\ IsSome(task.id) /\ IsSome(task.title) /\ IsSome(task.status)
    /\ Get(task.status) \in validStatuses

\* validateTask(task) against the tasks of the map m
validateTask(m, task) ==
    /\ IsSome(task.id) /\ IsSome(task.title) /\ IsSome(task.status)
    /\ Get(task.status) \in validStatuses
    /\ Truthy(task.parentId) => has(m, Get(task.parentId))

\* Array.from(this.tasks.values()).filter(task => task.parentId === taskId)
childrenOf(m, taskId) == SelectSeq(m, LAMBDA task : task.parentId = Some(taskId))

\* deleteTaskAndChildren(taskId) on the map m.  active holds the ids of the
\* calls that have not returned: a call on one of them finds the map as the
\* earlier call on it did, recurses as that call did and never returns, until
\* the stack is exhausted (RangeError).  The result is the map when the call
\* returns or when the error is thrown.
RECURSIVE deleteTaskAndChildren(_, _, _)
RECURSIVE deleteEach(_, _, _)
deleteEach(m, children, active) ==
    IF Len(children) = 0 THEN [tasks |-> m, overflow |-> FALSE]
    ELSE LET done == deleteTaskAndChildren(m, Get(Head(children).id), active)
         IN  IF done.overflow THEN done
             ELSE deleteEach(done.tasks, Tail(children), active)

deleteTaskAndChildren(m, taskId, active) ==
    IF taskId \in active THEN [tasks |-> m, overflow |-> TRUE]
    ELSE LET done == deleteEach(m, childrenOf(m, taskId), active \cup {taskId})
         IN  IF done.overflow THEN done
             ELSE [tasks |-> delete(done.tasks, taskId), overflow |-> FALSE]

\* the inputs of the store's calls
Ids == {"a", "b", "c"}

\* a task as the add-task form builds it
FormTask(id, parentId) ==
    TaskObject(Some(id), Some("T"), Some("Not Started"), parentId, Some("given"), None)

\* tasks that fail validation whatever the store holds: no id, no title, no
\* status, a status outside the four
InvalidTasks ==
    {TaskObject(None, Some("T"), Some("Not Started"), None, Some("given"), None),
     TaskObject(Some("a"), None, Some("Not Started"), None, Some("given"), None),
     TaskObject(Some("a"), Some("T"), None, None, Some("given"), None),
     TaskObject(Some("a"), Some("T"), Some("Archived"), None, Some("given"), None)}

\* the tasks given to addTask: every id alone, "a" as its own parent and as
\* the parent of "b", "b" as the parent of "c", and the invalid ones
TaskInputs ==
    {FormTask(id, None) : id \in Ids}
    \cup {FormTask("a", Some("a")), FormTask("b", Some("a")), FormTask("c", Some("b"))}
    \cup InvalidTasks

\* the updates of updateTask: a new parent, no parent, a status outside the
\* four
Updates ==
    {[parentId |-> Some("a")], [parentId |-> None], [status |-> Some("Archived")]}

\* what addTask stores: the task with created and position set
Stamped(task) ==
    [task EXCEPT !.created = Some("now"),
                 !.position = IF IsSome(task.position) THEN task.position
                              ELSE Some("0 0 -1")]

\* a task of an import file, as the store exports it
FileTask(id, parentId) == Stamped(FormTask(id, parentId))

\* a task of an import file with a status outside the four
ArchivedTask ==
    TaskObject(Some("a"), Some("T"), Some("Archived"), None, Some("now"), Some("0 0 -1"))

\* the parsed JSON of importTasks: None for a text that does not parse, else
\* Some(list)
Imports ==
    {None, Some(<<>>),
     Some(<<FileTask("a", None)>>),
     Some(<<FileTask("b", Some("a"))>>),
     Some(<<FileTask("c", Some("b"))>>),
     Some(<<ArchivedTask>>),
     Some(<<FileTask("a", None), FileTask("b", Some("a"))>>),
     Some(<<FileTask("b", Some("a")), FileTask("c", Some("b"))>>),
     Some(<<FileTask("b", Some("a")), FileTask("a", None)>>),
     Some(<<FileTask("a", None), FileTask("a", Some("a"))>>),
     Some(<<FileTask("a", None), ArchivedTask>>)}

Listeners == {"l1", "l2"}

\* no listener was called
Unheard(ls) == [l \in ls |-> <<>>]

\* notifyListeners(): every listener is called with getAllTasks()
notifyListeners(ls, m) == [l \in ls |-> <<m>>]

\* a call that throws before it changes anything
Rejected(op, arg) ==
    /\ lastOp' = [op |-> op, arg |-> arg, threw |-> TRUE, heard |-> Unheard(listeners)]
    /\ UNCHANGED <<store, saved, listeners, fractalVars, workerVars>>

\* (mutant) saveTasks notifies the listeners and does not write
Saves_unwritten(op, arg, m) ==
    /\ store' = m
    /\ lastOp' = [op |-> op, arg |-> arg, threw |-> FALSE, heard |-> notifyListeners(listeners, m)]
    /\ UNCHANGED <<saved, listeners, fractalVars, workerVars>>

\* a call that leaves the map m and ends with saveTasks(): the list is
\* written and the listeners are notified
Saves(op, arg, m) ==
    /\ store' = m
    /\ saved' = Some(stringify(m))
    /\ lastOp' = [op |-> op, arg |-> arg, threw |-> FALSE, heard |-> notifyListeners(listeners, m)]
    /\ UNCHANGED <<listeners, fractalVars, workerVars>>

\* the map loadTasks() leaves
Loaded == IF IsSome(saved) THEN setAll(<<>>, parse(Get(saved))) ELSE <<>>

\* loadTasks(): no write, no notification
LoadTasks ==
    /\ store' = Loaded
    /\ lastOp' = [op |-> "loadTasks", arg |-> "", threw |-> FALSE, heard |-> Unheard(listeners)]
    /\ UNCHANGED <<saved, listeners, fractalVars, workerVars>>

\* initialize(): loadTasks(), and importTasks(defaultTasks) when nothing was
\* stored
Initialize ==
    IF Len(Loaded) = 0
    THEN Saves("initialize", "", setAll(<<>>, defaultTasks))
    ELSE /\ store' = Loaded
         /\ lastOp' = [op |-> "initialize", arg |-> "", threw |-> FALSE, heard |-> Unheard(listeners)]
         /\ UNCHANGED <<saved, listeners, fractalVars, workerVars>>

\* addTask(task)
AddTask(task) ==
    IF validateTask(store, task)
    THEN Saves("addTask", "", set(store, Stamped(task)))
    ELSE Rejected("addTask", "")

\* { ...task, ...updates }
Merged(task, updates) ==
    [name \in DOMAIN task |-> IF name \in DOMAIN updates THEN updates[name] ELSE task[name]]

\* updateTask(taskId, updates)
UpdateTask(taskId, updates) ==
    IF has(store, taskId) /\ validateTask(store, Merged(get(store, taskId), updates))
    THEN Saves("updateTask", "", set(store, Merged(get(store, taskId), updates)))
    ELSE Rejected("updateTask", "")

\* deleteTask(taskId): when deleteTaskAndChildren exhausts the stack the error
\* is thrown on, nothing is written and the map stays as it was left
DeleteTask(taskId) ==
    IF ~has(store, taskId) THEN Rejected("deleteTask", taskId)
    ELSE IF deleteTaskAndChildren(store, taskId, {}).overflow
    THEN /\ store' = deleteTaskAndChildren(store, taskId, {}).tasks
         /\ lastOp' = [op |-> "deleteTask", arg |-> taskId, threw |-> TRUE, heard |-> Unheard(listeners)]
         /\ UNCHANGED <<saved, listeners, fractalVars, workerVars>>
    ELSE Saves("deleteTask", taskId, deleteTaskAndChildren(store, taskId, {}).tasks)

\* importTasks(json): every task is validated against the tasks stored before
\* the import, then the map is cleared and filled
ImportTasks(tasks) ==
    IF IsSome(tasks) /\ \A i \in 1..Len(Get(tasks)) : validateTask(store, Get(tasks)[i])
    THEN Saves("importTasks", "", setAll(<<>>, Get(tasks)))
    ELSE Rejected("importTasks", "")

\* clearTasks()
ClearTasks == Saves("clearTasks", "", <<>>)

\* addChangeListener(listener)
AddChangeListener(listener) ==
    /\ listeners' = listeners \cup {listener}
    /\ lastOp' = [op |-> "addChangeListener", arg |-> "", threw |-> FALSE,
                  heard |-> Unheard(listeners \cup {listener})]
    /\ UNCHANGED <<store, saved, fractalVars, workerVars>>

\* removeChangeListener(listener)
RemoveChangeListener(listener) ==
    /\ listeners' = listeners \ {listener}
    /\ lastOp' = [op |-> "removeChangeListener", arg |-> "", threw |-> FALSE,
                  heard |-> Unheard(listeners \ {listener})]
    /\ UNCHANGED <<store, saved, fractalVars, workerVars>>

\* a new TaskManager; the FractalAlgorithm object of the host is not called
StoreInit == HostInit({OtherTask})

StoreNext ==
    \/ Initialize
    \/ LoadTasks
    \/ \E task \in TaskInputs : AddTask(task)
    \/ \E taskId \in Ids, updates \in Updates : UpdateTask(taskId, updates)
    \/ \E taskId \in Ids : DeleteTask(taskId)
    \/ \E tasks \in Imports : ImportTasks(tasks)
    \/ ClearTasks
    \/ \E listener \in Listeners : AddChangeListener(listener)
    \/ \E listener \in Listeners : RemoveChangeListener(listener)

StoreSpec == StoreInit /\ [][StoreNext]_vars

\* ------------------------------------------------------------------------
\* The service worker
\* ------------------------------------------------------------------------
ASSETS_TO_CACHE ==
    {"/", "/index.html", "/manifest.json", "/js/app.js", "/js/ar-controller.js",
     "/js/fractal.js", "/js/task-manager.js",
     "https://cdn.tailwindcss.com",
     "https://cdnjs.cloudflare.com/ajax/libs/font-awesome/6.0.0-beta3/css/all.min.css",
     "https://aframe.io/releases/1.2.0/aframe.min.js",
     "https://raw.githack.com/AR-js-org/AR.js/master/aframe/build/aframe-ar.js",
     "https://cdnjs.cloudflare.com/ajax/libs/three.js/r128/three.min.js"}

\* the files of the project, which its origin answers with status 200 and
\* type basic; it answers any other path of the origin with 404
Served ==
    {"/", "/index.html", "/manifest.json", "/service-worker.js", "/css/styles.css",
     "/assets/icons/icon.png",
     "/js/app.js", "/js/ar-controller.js", "/js/fractal.js", "/js/task-manager.js"}

\* the requests of the fetch events: navigations to the start page, to a path
\* the project has no file for and to the fallback page, and the loads of a
\* script, of the style sheet, of an icon and of the worker's own script
Requests ==
    {[url |-> "/", mode |-> "navigate"],
     [url |-> "/roadmap", mode |-> "navigate"],
     [url |-> "/offline.html", mode |-> "navigate"],
     [url |-> "/js/app.js", mode |-> "no-cors"],
     [url |-> "/css/styles.css", mode |-> "no-cors"],
     [url |-> "/assets/icons/icon.png", mode |-> "no-cors"],
     [url |-> "/service-worker.js", mode |-> "same-origin"]}

\* the install event: cache.addAll(ASSETS_TO_CACHE) stores every asset or,
\* when one of the requests fails, nothing, and the worker is then discarded
Install ==
    /\ swPhase = "new"
    /\ \/ network /\ swPhase' = "installed" /\ swCache' = ASSETS_TO_CACHE
       \/ swPhase' = "redundant" /\ swCache' = swCache
    /\ UNCHANGED <<network, fetched, fractalVars, storeVars>>

\* the activate event: the caches of other names are deleted and the clients
\* are claimed
Activate ==
    /\ swPhase = "installed"
    /\ swPhase' = "activated"
    /\ UNCHANGED <<swCache, network, fetched, fractalVars, storeVars>>

\* the network comes and goes
Network ==
    /\ network' = ~network
    /\ UNCHANGED <<swPhase, swCache, fetched, fractalVars, storeVars>>

\* the fetch event of a request: the cached response when there is one; else
\* the response of the network, stored when it is a 200 of type basic; and
\* when fetch() rejects, caches.match('/offline.html') for a navigation and
\* nothing (undefined) for any other request
Fetch(request) ==
    /\ swPhase = "activated"
    /\ fetched' =
          [url |-> request.url, mode |-> request.mode, online |-> network,
           response |->
               IF request.url \in swCache THEN "cached"
               ELSE IF network
               THEN (IF request.url \in Served THEN "network 200" ELSE "network 404")
               ELSE IF request.mode = "navigate" /\ "/offline.html" \in swCache
               THEN "cached /offline.html"
               ELSE "undefined"]
    /\ swCache' = IF request.url \notin swCache /\ network /\ request.url \in Served
                  THEN swCache \cup {request.url} ELSE swCache
    /\ UNCHANGED <<swPhase, network, fractalVars, storeVars>>

WorkerNext ==
    \/ Install
    \/ Activate
    \/ Network
    \/ \E request \in Requests : Fetch(request)

\* a registered service worker; the host's other objects are not called
WorkerSpec == HostInit({OtherTask}) /\ [][WorkerNext]_vars

\* ------------------------------------------------------------------------
\* What the claims speak of
\* ------------------------------------------------------------------------
\* the last call was createFractalTree: the tree it returned and its source
Created == result.op = "createFractalTree"
Tree == Get(result.value)
Source == Argument(result.arg)
SourceGiven == IF result.arg = "task" THEN given ELSE OtherTask

\* C1: no node of the tree createFractalTree returns is deeper than maxDepth; a
\* node at depth maxDepth has no children even when its source task has
\* subtasks, and the source task still has those subtasks after the call.
C1_DepthBound ==
    Created =>
        \A p \in Paths(Tree) :
            LET node == NodeAt(Tree, p)
            IN  /\ node.depth <= maxDepth
                /\ node.depth = maxDepth =>
                      /\ node.children = <<>>
                      /\ p \in TaskPaths(Source)
                      /\ TaskAt(Source, p).subtasks = TaskAt(SourceGiven, p).subtasks

C1_Witness ==
    /\ Created
    /\ \E p \in Paths(Tree) :
          /\ NodeAt(Tree, p).depth = maxDepth
          /\ NumSubtasks(TaskAt(SourceGiven, p)) > 0
          /\ NumSubtasks(TaskAt(SourceGiven, Append(p, 1))) > 0

\* C2: every node of the tree has complexity min(10, 1 + min(5, len(description)
\* / 100) if the source task has a description + the number of immediate
\* subtasks of the source task if it has subtasks), which lies in [1, 10]
\* (hundredths here); the subtasks of subtasks are not counted.
C2_NodeComplexity ==
    Created =>
        \A p \in Paths(Tree) :
            LET node == NodeAt(Tree, p)
                source == TaskAt(Source, p)
                byDescription == IF IsSome(source.description)
                                 THEN Min(500, Len(Get(source.description))) ELSE 0
                byImmediate == IF IsSome(source.subtasks)
                               THEN 100 * Len(Get(source.subtasks)) ELSE 0
            IN  /\ node.task = source
                /\ node.complexity = Min(1000, 100 + byDescription + byImmediate)
                /\ 100 <= node.complexity
                /\ node.complexity <= 1000

\* a tree whose root sums to more than 10 before the clamp and which has a
\* node below the clamp whose subtasks have subtasks of their own
C2_Witness ==
    /\ Created
    /\ IsSome(Source.description)
    /\ Len(Get(Source.description)) >= 500
    /\ NumSubtasks(Source) >= 5
    /\ Tree.complexity = 1000
    /\ \E p \in Paths(Tree) :
          /\ NodeAt(Tree, p).complexity < 1000
          /\ \E k \in 1..NumSubtasks(TaskAt(Source, p)) :
                 NumSubtasks(TaskAt(Source, Append(p, k))) > 0

\* the last call was _analyzeComplexity: the score it returned, in 1/AUnit
Analyzed == result.op = "_analyzeComplexity"
Score == Get(result.value)

\* the formula of C3 for a task, in 1/AUnit; a description counts as present
\* when the field exists, or (nonEmpty) when it exists and is not ""
RECURSIVE StatedScore(_, _)
StatedScore(t, nonEmpty) ==
    LET present == IsSome(t.description) /\ (nonEmpty => Get(t.description) # "")
        textComplexity ==
            IF present THEN TextAnalysis[t.description].complexity * (AUnit \div 100)
            ELSE 0
        children == IF IsSome(t.subtasks) THEN Get(t.subtasks) ELSE <<>>
        ofChildren == SumSeq([k \in 1..Len(children) |->
                                 StatedScore(children[k], nonEmpty)])
        dependencies == IF IsSome(t.dependencies) THEN Len(Get(t.dependencies)) ELSE 0
    IN  Min(10 * AUnit,
            AUnit + textComplexity + Len(children) * AUnit + ofChildren \div 2
                + dependencies * (AUnit \div 2))

\* C3 as stated: _analyzeComplexity(task) = min(10, 1 + textComplexity(description)
\* if the description is present + count(subtasks) + 0.5 * the sum of
\* _analyzeComplexity over the subtasks + 0.5 * count(dependencies)), in [1, 10].
C3_AsStated ==
    Analyzed =>
        /\ Score = StatedScore(Source, FALSE)
        /\ AUnit <= Score
        /\ Score <= 10 * AUnit

\* C3, amended: as stated, with the description counted only when it is
\* present and not the empty string.
C3_Analysis ==
    Analyzed =>
        /\ Score = StatedScore(Source, TRUE)
        /\ AUnit <= Score
        /\ Score <= 10 * AUnit

\* a score below the clamp for a task with a description, dependencies and
\* subtasks that have subtasks, one task of the tree having the description ""
C3_Witness ==
    /\ Analyzed
    /\ Score < 10 * AUnit
    /\ Truthy(Source.description)
    /\ IsSome(Source.dependencies)
    /\ Len(Get(Source.dependencies)) > 0
    /\ \E p \in TaskPaths(Source) :
          /\ Len(p) >= 2
          /\ TaskAt(Source, p).description = Some("")

\* C4: the root has depth 0, every child is one level deeper than its parent,
\* and every node above maxDepth has one child per subtask of its source task,
\* the i-th child built from the i-th subtask.
C4_Mirror ==
    Created =>
        /\ Tree.depth = 0
        /\ \A p \in Paths(Tree) :
              LET node == NodeAt(Tree, p)
                  source == TaskAt(Source, p)
              IN  /\ \A i \in 1..Len(node.children) :
                         node.children[i].depth = node.depth + 1
                  /\ node.depth < maxDepth =>
                         /\ Len(node.children) = NumSubtasks(source)
                         /\ \A i \in 1..NumSubtasks(source) :
                                node.children[i].task = Get(source.subtasks)[i]

\* a tree with a node below the root that has several children
C4_Witness ==
    /\ Created
    /\ \E p \in Paths(Tree) :
          /\ Len(p) >= 1
          /\ Len(NodeAt(Tree, p).children) >= 2
          /\ NodeAt(Tree, p).children[1].task # NodeAt(Tree, p).children[2].task

\* the derived size and color of a node (color: the status key and the
\* channels, or "TypeError" when _calculateColor throws)
Derived(node) ==
    [size |-> _calculateSize(node),
     color |-> IF ColorThrows(node) THEN "TypeError" ELSE _calculateColor(node)]

C6_TasksUnchanged == [][hostTask' = hostTask]_vars

\* suggestDecomposition has run on a task with nested subtasks of which a
\* tree was built before, and the task is as it was given
C6_Witness ==
    /\ result.op = "suggestDecomposition"
    /\ result.arg = "task"
    /\ IsSome(firstTree)
    /\ NumSubtasks(hostTask) > 0
    /\ NumSubtasks(TaskAt(hostTask, <<1>>)) > 0
    /\ hostTask = given

\* the square of the distance between two positions in the x-z plane
Dist2(a, b) == (a.x - b.x) * (a.x - b.x) + (a.z - b.z) * (a.z - b.z)

\* C7: the i-th of the n children of a node (0-based) is at
\* (parent.x + r cos(2 pi i / n), parent.y - 0.5, parent.z + r sin(2 pi i / n))
\* with r = max(0.5, 0.2 n): the children lie on the circle of radius r around
\* the parent (to the precision of the trigonometric tables), neighbours are
\* equally far apart, r is at least 0.5, and for n = 3 the offsets are those
\* of the angles 0, 2 pi / 3 and 4 pi / 3 at r = 0.6.
C7_Ring ==
    Created =>
        \A p \in Paths(Tree) :
            LET parent == NodeAt(Tree, p)
                n == Len(parent.children)
                r == Max(5, 2 * n)
                at(i) == parent.children[i + 1].position
                r2 == (1000 * r) * (1000 * r)
            IN  /\ r >= 5
                /\ \A i \in 0..(n - 1) :
                       /\ at(i).x = parent.position.x + r * Cos(i, n)
                       /\ at(i).y = parent.position.y - 5000
                       /\ at(i).z = parent.position.z + r * Sin(i, n)
                       /\ Dist2(at(i), parent.position) >= r2 - r2 \div 100
                       /\ Dist2(at(i), parent.position) <= r2 + r2 \div 100
                       /\ LET gap == Dist2(at(i), at((i + 1) % n))
                              first == Dist2(at(0), at(1 % n))
                          IN  /\ gap - first <= r2 \div 100
                              /\ first - gap <= r2 \div 100
                /\ n = 3 =>
                       /\ at(0).x - parent.position.x = 6000
                       /\ at(0).z - parent.position.z = 0
                       /\ at(1).x - parent.position.x = -3000
                       /\ at(1).z - parent.position.z = 5196
                       /\ at(2).x - parent.position.x = -3000
                       /\ at(2).z - parent.position.z = -5196

\* a root with three children, one of them with a single child (the radius
\* at its floor) and one with two
C7_Witness ==
    /\ Created
    /\ Len(Tree.children) = 3
    /\ Tree.children[2].position = [x |-> -3000, y |-> 15000, z |-> 5196]
    /\ Len(Tree.children[1].children) = 1
    /\ Tree.children[1].children[1].position = [x |-> 11000, y |-> 10000, z |-> 0]
    /\ Len(Tree.children[2].children) = 2

\* C8: the root is at (0, 2, 0), a node at depth d has y = 2 - 0.5 d, and
\* every other node is placed on the ring around the position its parent has
\* in the returned tree.
C8_Anchored ==
    Created =>
        /\ Tree.position = Anchor
        /\ \A p \in Paths(Tree) :
              LET node == NodeAt(Tree, p)
              IN  /\ node.position.y = 20000 - 5000 * node.depth
                  /\ p # <<>> =>
                        LET parent == NodeAt(Tree, SubSeq(p, 1, Len(p) - 1))
                            n == Len(parent.children)
                            i == p[Len(p)] - 1
                        IN  node.position =
                                [x |-> parent.position.x + Max(5, 2 * n) * Cos(i, n),
                                 y |-> parent.position.y - 5000,
                                 z |-> parent.position.z + Max(5, 2 * n) * Sin(i, n)]

\* a tree of full depth whose deepest node sits off the axis of the root
C8_Witness ==
    /\ Created
    /\ \E p \in Paths(Tree) :
          /\ Len(p) = maxDepth
          /\ NodeAt(Tree, p).position.y = 20000 - 5000 * maxDepth
          /\ NodeAt(Tree, p).position.x # 0

\* the last call was suggestDecomposition: the stubs it returned
Suggested == result.op = "suggestDecomposition"
Stubs == Get(result.value)

\* the description holds one of the words somewhere, letter case ignored; an
\* absent description holds none
Mentions(description, words) ==
    /\ IsSome(description)
    /\ \E w \in words :
          \E p \in 1..(Len(Get(description)) - Len(w) + 1) :
              \A j \in 1..Len(w) :
                  LowerChar(Char(Get(description), p + j - 1)) = Char(w, j)

CoreWords == {"implement", "develop", "create"}
FeatureWords == {"feature", "functionality"}

\* the stubs carry these titles, in this order, each with its weight: the
\* weight is the factor handed to _createSubtask, and the stub of a parent
\* with a complexity has the parent's complexity times the weight
Emits(titles, weights) ==
    /\ Len(Stubs) = Len(titles)
    /\ Len(SubtaskCalls(Source)) = Len(titles)
    /\ \A k \in 1..Len(titles) :
          /\ Stubs[k].title = titles[k]
          /\ SubtaskCalls(Source)[k].factor = Frac(weights[k][1], weights[k][2])
          /\ IsSome(Source.complexity) =>
                Stubs[k].complexity =
                    Some(Frac(Get(Source.complexity) * weights[k][1], weights[k][2]))

\* C9: when the description mentions implement, develop or create,
\* suggestDecomposition returns the four stubs Research & Planning, Core
\* Implementation, Testing & Validation, Documentation, in this order, with
\* the weights 0.2, 0.4, 0.2, 0.2, whatever other trigger words it mentions.
C9_CoreComponents ==
    (Suggested /\ Mentions(Source.description, CoreWords)) =>
        Emits(<<"Research & Planning", "Core Implementation",
                "Testing & Validation", "Documentation">>,
              <<<<2, 10>>, <<4, 10>>, <<2, 10>>, <<2, 10>>>>)

\* the decomposition of a task with a complexity whose description mentions
\* Implementation, feature and Optimize
C9_Witness ==
    /\ Suggested
    /\ Source.description = Some("Optimize the Implementation of every feature")
    /\ Mentions(Source.description, FeatureWords)
    /\ Mentions(Source.description, {"improve", "optimize"})
    /\ IsSome(Source.complexity)
    /\ Len(Stubs) = 4

\* the trimmed phrases of the sentences that match
\* "(implement|add|create|develop) <phrase>", in sentence order
RECURSIVE PhrasesOf(_)
PhrasesOf(sentences) ==
    IF Len(sentences) = 0 THEN <<>>
    ELSE LET found == FeatureMatch(sentences[Len(sentences)])
         IN  PhrasesOf(SubSeq(sentences, 1, Len(sentences) - 1))
             \o (IF found = <<>> THEN <<>> ELSE <<trim(found[1])>>)

\* C10: when the description mentions feature or functionality and none of
\* implement, develop, create, suggestDecomposition returns one stub per
\* sentence that matches "(implement|add|create|develop) <phrase>", titled
\* with the trimmed phrase, in sentence order, each with weight 1/count; with
\* no matching sentence it returns one stub, Core Feature, with weight 1.
C10_FeatureBreakdown ==
    (/\ Suggested
     /\ Mentions(Source.description, FeatureWords)
     /\ ~Mentions(Source.description, CoreWords)) =>
        LET phrases == PhrasesOf(split(Get(Source.description), "terminator"))
            count == Len(phrases)
        IN  /\ IF count = 0
               THEN Emits(<<"Core Feature">>, <<<<1, 1>>>>)
               ELSE Emits(phrases, [k \in 1..count |-> <<1, count>>])
            /\ Source.description = Some("New feature") =>
                   Emits(<<"Core Feature">>, <<<<1, 1>>>>)
            /\ Source.description = Descriptions[4] =>
                   Emits(<<"feature search", "functionality export">>,
                         <<<<1, 2>>, <<1, 2>>>>)

\* the decomposition of a task with a complexity whose description has four
\* sentences, two of them matching, one with a phrase that trims to nothing
C10_Witness ==
    /\ Suggested
    /\ Source.description = Descriptions[9]
    /\ Len(split(Get(Source.description), "terminator")) = 4
    /\ IsSome(Source.complexity)
    /\ Len(Stubs) = 2
    /\ Stubs[1].title = "Big Charts"
    /\ Stubs[2].title = ""

\* the stubs are "Phase 1" .. "Phase n", in order, each with weight 1/n
PhaseStubs(n) ==
    Emits([k \in 1..n |-> "Phase " \o Char("123456789", k)],
          [k \in 1..n |-> <<1, n>>])

\* clamp(2, 5, ceil(c / 2)) for a score c in 1/AUnit
StatedCount(c) ==
    CHOOSE n \in 2..5 :
        /\ n = 2 \/ c > 2 * (n - 1) * AUnit
        /\ n = 5 \/ c <= 2 * n * AUnit

\* suggestDecomposition was called on a task whose description mentions no
\* word of core-components and no word of feature-breakdown
DefaultBranch ==
    /\ Suggested
    /\ ~Mentions(Source.description, CoreWords)
    /\ ~Mentions(Source.description, FeatureWords)

NumDependencies(t) == IF IsSome(t.dependencies) THEN Len(Get(t.dependencies)) ELSE 0

\* C11 as stated: in the default branch suggestDecomposition returns
\* N = clamp(2, 5, ceil(analyzeComplexity(task) / 2)) stubs Phase 1 .. Phase N,
\* each with weight 1/N; a task with no description and no subtasks has
\* analyzeComplexity 1 and gets Phase 1 and Phase 2 with weight 0.5 each.
C11_AsStated ==
    DefaultBranch =>
        /\ PhaseStubs(StatedCount(_analyzeComplexity(Source)))
        /\ (~Truthy(Source.description) /\ NumSubtasks(Source) = 0) =>
              /\ _analyzeComplexity(Source) = AUnit
              /\ PhaseStubs(2)

\* C11, amended: as stated, the task of the last sentence having no
\* dependencies either.
C11_DefaultPhases ==
    DefaultBranch =>
        /\ PhaseStubs(StatedCount(_analyzeComplexity(Source)))
        /\ (/\ ~Truthy(Source.description)
            /\ NumSubtasks(Source) = 0
            /\ NumDependencies(Source) = 0) =>
              /\ _analyzeComplexity(Source) = AUnit
              /\ PhaseStubs(2)

\* the decomposition into three phases of a task whose description fires the
\* optimization tag only
C11_Witness ==
    /\ DefaultBranch
    /\ Source.description = Some("improve speed")
    /\ Mentions(Source.description, {"improve", "optimize"})
    /\ NumDependencies(Source) > 0
    /\ Len(Stubs) = 3
    /\ Stubs[3].title = "Phase 3"

\* the sum of a sequence of fractions
RECURSIVE FracSum(_)
FracSum(fs) ==
    IF Len(fs) = 0 THEN <<0, 1>>
    ELSE LET rest == FracSum(Tail(fs))
         IN  Frac(Head(fs)[1] * rest[2] + rest[1] * Head(fs)[2], Head(fs)[2] * rest[2])

\* C12 as stated: in each branch every stub suggestDecomposition returns has
\* for complexity the number parent.complexity * weight, the weights of one
\* call sum to 1 and the complexities of its stubs sum to parent.complexity.
C12_AsStated ==
    Suggested =>
        LET calls == SubtaskCalls(Source)
        IN  /\ FracSum([k \in 1..Len(calls) |-> calls[k].factor]) = <<1, 1>>
            /\ \A k \in 1..Len(Stubs) : IsSome(Stubs[k].complexity)
            /\ IsSome(Source.complexity) =>
                  /\ \A k \in 1..Len(Stubs) :
                         Stubs[k].complexity =
                             Some(Frac(Get(Source.complexity) * calls[k].factor[1],
                                       calls[k].factor[2]))
                  /\ FracSum([k \in 1..Len(Stubs) |-> Get(Stubs[k].complexity)])
                         = <<Get(Source.complexity), 1>>

\* what holds of C12: the weights sum to 1, and the stubs of a parent that
\* carries a complexity share it by their weights; the stubs of a parent
\* without one have no number for complexity (NaN)
C12_WithComplexity ==
    Suggested =>
        LET calls == SubtaskCalls(Source)
        IN  /\ FracSum([k \in 1..Len(calls) |-> calls[k].factor]) = <<1, 1>>
            /\ \A k \in 1..Len(Stubs) :
                   IsSome(Stubs[k].complexity) = IsSome(Source.complexity)
            /\ IsSome(Source.complexity) =>
                  /\ \A k \in 1..Len(Stubs) :
                         Stubs[k].complexity =
                             Some(Frac(Get(Source.complexity) * calls[k].factor[1],
                                       calls[k].factor[2]))
                  /\ FracSum([k \in 1..Len(Stubs) |-> Get(Stubs[k].complexity)])
                         = <<Get(Source.complexity), 1>>

\* a === b for an a of type ta and a b of type tb
StrictEquals(ta, a, tb, b) == ta = tb /\ a = b

\* the ids of the tasks that exist, strings (Date.now().toString())
ExistingIds ==
    {TaskAt(hostTask, p).id : p \in TaskPaths(hostTask)}
    \cup {TaskAt(OtherTask, p).id : p \in TaskPaths(OtherTask)}

\* C13 as stated: the ids of the stubs of one suggestDecomposition call are
\* pairwise distinct and differ from the id of every task that exists,
\* whatever the clock read and the random draws of the call were.
C13_AsStated ==
    Suggested =>
        /\ \A j, k \in 1..Len(Stubs) : j # k => Stubs[j].id # Stubs[k].id
        /\ \A k \in 1..Len(Stubs) :
               \A id \in ExistingIds : ~StrictEquals("number", Stubs[k].id, "string", id)

\* the last call was generateVisualization and it returned: what it returned
\* and the node it was given
Visualized == result.op = "generateVisualization" /\ ~result.threw
Visual == Get(result.value)
Shown == NodeAt(Get(root), result.arg)

\* p is met before q when a tree is walked depth first, a node before its
\* subtree and the children in stored order
RECURSIVE Before(_, _)
Before(p, q) ==
    IF Len(p) = 0 THEN Len(q) > 0
    ELSE IF Len(q) = 0 THEN FALSE
    ELSE IF Head(p) = Head(q) THEN Before(Tail(p), Tail(q))
    ELSE Head(p) < Head(q)

\* the nodes below node, by path from it
Below(node) == Paths(node) \ {<<>>}

\* the child end of the k-th edge of that walk from node, and its parent end
EdgeAt(node, k) ==
    CHOOSE p \in Below(node) : Cardinality({q \in Below(node) : Before(q, p)}) = k - 1

Parent(p) == SubSeq(p, 1, Len(p) - 1)

\* (1 - child.depth / maxDepth) * (parent.complexity + child.complexity) / 20
\* as numerator and denominator, the complexities in hundredths
RawStrength(parent, child) ==
    <<(maxDepth - child.depth) * (parent.complexity + child.complexity), maxDepth * 2000>>

\* clamp(0.2, 1.0, raw)
StatedStrength(parent, child) ==
    LET raw == RawStrength(parent, child)
    IN  IF 5 * raw[1] <= raw[2] THEN <<1, 5>>
        ELSE IF raw[1] >= raw[2] THEN <<1, 1>>
        ELSE Frac(raw[1], raw[2])

\* C14: every connection generateVisualization returns for a node of the tree
\* createFractalTree built has strength clamp(0.2, 1.0, (1 - child.depth /
\* maxDepth) * (parent.complexity + child.complexity) / 20), taken at the two
\* ends of its edge, and so a strength in [0.2, 1.0].
C14_Strength ==
    Visualized =>
        /\ Len(Visual.connections) = Cardinality(Below(Shown))
        /\ \A k \in 1..Len(Visual.connections) :
               LET child == EdgeAt(Shown, k)
                   strength == Visual.connections[k].strength
               IN  /\ strength = StatedStrength(NodeAt(Shown, Parent(child)),
                                                NodeAt(Shown, child))
                   /\ 5 * strength[1] >= strength[2]
                   /\ strength[1] <= strength[2]

\* the connections of a tree that reaches maxDepth: one strictly inside
\* (0.2, 1.0), one lifted to 0.2 from a smaller product, one into a node at
\* maxDepth
C14_Witness ==
    /\ Visualized
    /\ result.arg = <<>>
    /\ \E k \in 1..Len(Visual.connections) :
           /\ 5 * Visual.connections[k].strength[1] > Visual.connections[k].strength[2]
           /\ Visual.connections[k].strength[1] < Visual.connections[k].strength[2]
    /\ \E p \in Below(Shown) :
           /\ NodeAt(Shown, p).depth < maxDepth
           /\ 5 * RawStrength(NodeAt(Shown, Parent(p)), NodeAt(Shown, p))[1]
                  < RawStrength(NodeAt(Shown, Parent(p)), NodeAt(Shown, p))[2]
    /\ \E p \in Below(Shown) : NodeAt(Shown, p).depth = maxDepth

\* C15: _calculateConnections(node) returns one connection per edge of the
\* subtree of node, the number of its nodes less one, from the position of the
\* parent to the position of the child; the edge into a child comes before
\* every edge inside the child's subtree and the edges of siblings come in
\* stored child order.
C15_Connections ==
    Visualized =>
        /\ Len(Visual.connections) = Cardinality(Paths(Shown)) - 1
        /\ \A k \in 1..Len(Visual.connections) :
               /\ Visual.connections[k].from = NodeAt(Shown, Parent(EdgeAt(Shown, k))).position
               /\ Visual.connections[k].to = NodeAt(Shown, EdgeAt(Shown, k)).position
        /\ \A j, k \in 1..Len(Visual.connections) :
               LET p == EdgeAt(Shown, j)
                   q == EdgeAt(Shown, k)
               IN  /\ (Len(p) < Len(q) /\ SubSeq(q, 1, Len(p)) = p) => j < k
                   /\ (Parent(p) = Parent(q) /\ p[Len(p)] < q[Len(q)]) => j < k

\* the connections of a node with several children, one of them not the last
\* and with children of its own
C15_Witness ==
    /\ Visualized
    /\ Len(Shown.children) >= 2
    /\ \E p \in Below(Shown) : Len(p) = 2 /\ p[1] < Len(Shown.children)
    /\ Len(Visual.connections) >= 4
    /\ \A j, k \in 1..Len(Visual.connections) :
           j # k => Visual.connections[j].to # Visual.connections[k].to

\* the base triple the claim gives a status: the four of the palette, gray for
\* an absent or unrecognized one
StatedBase(status) ==
    IF status = Some("In Progress") THEN <<79, 70, 229>>
    ELSE IF status = Some("Completed") THEN <<34, 197, 94>>
    ELSE IF status = Some("Blocked") THEN <<239, 68, 68>>
    ELSE <<128, 128, 128>>

\* min(255, base * (0.5 + complexity / 20)), the complexity in hundredths
StatedChannel(base, complexity) ==
    IF base * (1000 + complexity) >= 255 * 2000 THEN <<255, 1>>
    ELSE Frac(base * (1000 + complexity), 2000)

\* the color of the last generateVisualization call is the stated one, each
\* channel in [0, 255]
StatedColorShown ==
    LET base == StatedBase(Shown.task.status)
        color == Visual.color
    IN  /\ color.r = StatedChannel(base[1], Shown.complexity)
        /\ color.g = StatedChannel(base[2], Shown.complexity)
        /\ color.b = StatedChannel(base[3], Shown.complexity)
        /\ \A channel \in {color.r, color.g, color.b} :
               channel[1] >= 0 /\ channel[1] <= 255 * channel[2]
        /\ (Shown.task.status = Some("Blocked") /\ Shown.complexity = 1000) =>
               color = [r |-> <<239, 1>>, g |-> <<68, 1>>, b |-> <<68, 1>>]

\* C16 as stated: the color of a node is defined whatever its task.status,
\* never a failure: the base triple of the status, gray for an absent or
\* unrecognized status, each channel min(255, base * (0.5 + complexity / 20))
\* and so in [0, 255].
C16_AsStated ==
    result.op = "generateVisualization" => (~result.threw /\ StatedColorShown)

\* what holds of C16: generateVisualization fails exactly when the status is
\* present and none of the four, and gives the stated color otherwise
C16_KnownStatus ==
    result.op = "generateVisualization" =>
        /\ result.threw <=>
               /\ IsSome(NodeAt(Get(root), result.arg).task.status)
               /\ Get(NodeAt(Get(root), result.arg).task.status)
                      \notin {"Not Started", "In Progress", "Completed", "Blocked"}
        /\ ~result.threw => StatedColorShown

\* max(minSize, 0.8 ^ depth * (0.5 + complexity / 20)) with minSize 0.1, the
\* complexity in hundredths
StatedSize(depth, complexity) ==
    LET num == Pow(4, depth) * (1000 + complexity)
        den == Pow(5, depth) * 2000
    IN  IF 10 * num <= den THEN <<1, 10>> ELSE Frac(num, den)

\* a size, in units of 1 / (5 ^ maxDepth * 2000)
SizeUnits(size) == size[1] * ((Pow(5, maxDepth) * 2000) \div size[2])

\* C17: the size generateVisualization reports for a node is
\* max(minSize, 0.8 ^ depth * (0.5 + complexity / 20)); it is never below
\* minSize, 0.1, and no larger than the size of a node of the same complexity
\* at a smaller depth.
C17_Size ==
    Visualized =>
        /\ Visual.size = StatedSize(Shown.depth, Shown.complexity)
        /\ SizeUnits(<<1, 10>>) <= SizeUnits(Visual.size)
        /\ \A depth \in 0..Shown.depth :
               SizeUnits(Visual.size)
                   <= SizeUnits(_calculateSize([Shown EXCEPT !.depth = depth]))
        /\ \A p \in Paths(Get(root)) :
               (/\ NodeAt(Get(root), p).complexity = Shown.complexity
                /\ NodeAt(Get(root), p).depth <= Shown.depth) =>
                   SizeUnits(Visual.size) <= SizeUnits(_calculateSize(NodeAt(Get(root), p)))

\* the size of a node at maxDepth, smaller than the size of a node of the same
\* complexity higher in the tree
C17_Witness ==
    /\ Visualized
    /\ Shown.depth = maxDepth
    /\ \E p \in Paths(Get(root)) :
           /\ NodeAt(Get(root), p).complexity = Shown.complexity
           /\ NodeAt(Get(root), p).depth < Shown.depth
           /\ _calculateSize(NodeAt(Get(root), p)) # Visual.size

\* C18 as stated: every node of the tree createFractalTree returns carries a
\* size that is max(minSize, 0.8 ^ depth * (0.5 + complexity / 20)), at least
\* minSize, and the size generateVisualization reports for the node.
C18_AsStated ==
    Created =>
        \A p \in Paths(Tree) :
            LET node == NodeAt(Tree, p)
            IN  /\ node.size = StatedSize(node.depth, node.complexity)
                /\ SizeUnits(<<1, 10>>) <= SizeUnits(node.size)
                /\ node.size = _calculateSize(node)

\* what holds of C18: the size of every node of the tree is the 1.0 of the
\* constructor, which is at least minSize and is the derived size only where
\* that is 1.0 too
C18_SizeField ==
    Created =>
        \A p \in Paths(Tree) :
            LET node == NodeAt(Tree, p)
            IN  /\ node.size = <<1, 1>>
                /\ SizeUnits(<<1, 10>>) <= SizeUnits(node.size)
                /\ (node.size = _calculateSize(node))
                       <=> (node.depth = 0 /\ node.complexity = 1000)

\* the last call was _identifyPatterns or _analyzeTextComplexity (on the
\* description of Source)
Scanned == result.op = "_identifyPatterns"
Measured == result.op = "_analyzeTextComplexity"

\* C19 as stated: given an absent description, _identifyPatterns and
\* _analyzeTextComplexity do not fail and behave as for the empty string:
\* _identifyPatterns returns no tag and _analyzeTextComplexity returns what it
\* returns for "".
C19_AsStated ==
    /\ (Scanned /\ Source.description = None) =>
           /\ ~result.threw
           /\ result.value = Some(<<>>)
           /\ result.value = Some(_identifyPatterns([description |-> Some("")]))
    /\ (Measured /\ Source.description = None) =>
           /\ ~result.threw
           /\ result.value = Some(_analyzeTextComplexity(""))

\* what holds of C19: _identifyPatterns returns no tag for an absent
\* description, as for ""; _analyzeTextComplexity fails on an absent
\* description, returns 0.22 for "", and _analyzeComplexity calls it for
\* neither
C19_Guarded ==
    /\ (Scanned /\ ~Truthy(Source.description)) =>
           /\ ~result.threw
           /\ result.value = Some(<<>>)
    /\ Measured =>
           /\ result.threw <=> Source.description = None
           /\ Source.description = Some("") => result.value = Some(22)
    /\ (Analyzed /\ ~Truthy(Source.description)) =>
           Score = StatedScore([Source EXCEPT !.description = None], TRUE)

\* C20: updateLayout on a node with no children is a no-op: it raises no
\* fault, no position of the tree changes, and the node's own position stays
\* what it was.
C20_NoChildren ==
    [][(/\ result'.op = "updateLayout"
        /\ IsSome(root)
        /\ result'.arg \in Paths(Get(root))
        /\ NodeAt(Get(root), result'.arg).children = <<>>) =>
           /\ ~result'.threw
           /\ root' = root
           /\ NodeAt(Get(root'), result'.arg).position
                  = NodeAt(Get(root), result'.arg).position]_vars

\* updateLayout was called on a node with no children that lies off the
\* anchor, below a parent with several children
C20_Witness ==
    /\ result.op = "updateLayout"
    /\ Len(result.arg) >= 2
    /\ NodeAt(Get(root), result.arg).children = <<>>
    /\ NodeAt(Get(root), result.arg).position.x # 0
    /\ Len(NodeAt(Get(root), SubSeq(result.arg, 1, Len(result.arg) - 1)).children) >= 2

\* ------------------------------------------------------------------------
\* The task store
\* ------------------------------------------------------------------------
\* the ids of the tasks of a map
StoredIds(m) == {Get(m[i].id) : i \in 1..Len(m)}

\* C21: in every state the store reaches through initialize, loadTasks,
\* addTask, updateTask, deleteTask, importTasks and clearTasks, every stored
\* task whose parentId is set names a task of the same collection.
C21_AsStated ==
    \A i \in 1..Len(store) :
        IsSome(store[i].parentId) => Get(store[i].parentId) \in StoredIds(store)

\* the ids of the task taskId and of its descendants by parentId in the map
RECURSIVE Family(_, _)
Family(m, ids) ==
    LET more == ids \cup {Get(m[i].id) : i \in {k \in 1..Len(m) :
                              IsSome(m[k].parentId) /\ Get(m[k].parentId) \in ids}}
    IN  IF more = ids THEN ids ELSE Family(m, more)

\* the map without the tasks of these ids, the others as they were
Without(m, ids) == SelectSeq(m, LAMBDA task : Get(task.id) \notin ids)

\* C25 as stated: in every state of the store, deleteTask(id) of a stored
\* task returns, and leaves the collection without that task and its
\* descendants by parentId and with every other task unchanged.
C25_AsStated ==
    [][(lastOp'.op = "deleteTask" /\ lastOp'.arg \in StoredIds(store)) =>
          /\ ~lastOp'.threw
          /\ store' = Without(store, Family(store, {lastOp'.arg}))]_vars

\* a task is its own ancestor by parentId: it is in the family of its children
OwnAncestor(m, taskId) ==
    taskId \in Family(m, {Get(m[i].id) : i \in {k \in 1..Len(m) :
                                             m[k].parentId = Some(taskId)}})

\* deleteTask of a stored task does as stated exactly when no task of its
\* family is its own ancestor; otherwise it throws and nothing is written
C25_WithoutCycles ==
    [][(lastOp'.op = "deleteTask" /\ lastOp'.arg \in StoredIds(store)) =>
          IF \E id \in Family(store, {lastOp'.arg}) : OwnAncestor(store, id)
          THEN lastOp'.threw /\ saved' = saved
          ELSE /\ ~lastOp'.threw
               /\ store' = Without(store, Family(store, {lastOp'.arg}))]_vars

\* a task that fails validation, in the claim's words: no id, no title or no
\* status, a status outside the four, a parentId that is not in the collection
StatedInvalid(m, task) ==
    \/ task.id = None \/ task.title = None \/ task.status = None
    \/ task.status \notin {Some("Not Started"), Some("In Progress"),
                           Some("Completed"), Some("Blocked")}
    \/ IsSome(task.parentId) /\ Get(task.parentId) \notin StoredIds(m)

\* the step is a call that threw and changed neither the collection nor the
\* storage, and no listener was called
Untouched ==
    /\ lastOp'.threw
    /\ store' = store
    /\ saved' = saved
    /\ listeners' = listeners
    /\ \A l \in listeners : lastOp'.heard[l] = <<>>

\* C26: addTask and updateTask with data that fails validation, updateTask
\* and deleteTask with an id that is not stored, and importTasks with an
\* invalid task among the imported each throw, leave the collection and the
\* storage as they were and notify no listener.
C26_Rejected ==
    [][/\ (lastOp'.op = "addTask") =>
              (\A task \in TaskInputs :
                  (StatedInvalid(store, task) /\ AddTask(task)) => Untouched)
       /\ (lastOp'.op = "updateTask") =>
              (\A taskId \in Ids, updates \in Updates :
                  (/\ \/ taskId \notin StoredIds(store)
                      \/ StatedInvalid(store, Merged(get(store, taskId), updates))
                   /\ UpdateTask(taskId, updates))
                  => Untouched)
       /\ (lastOp'.op = "deleteTask") =>
              ((lastOp'.arg \notin StoredIds(store) /\ DeleteTask(lastOp'.arg))
               => Untouched)
       /\ (lastOp'.op = "importTasks") =>
              (\A tasks \in Imports \ {None} :
                  (/\ \E i \in 1..Len(Get(tasks)) : StatedInvalid(store, Get(tasks)[i])
                   /\ ImportTasks(tasks))
                  => Untouched)]_vars

\* an import was rejected while tasks were stored and saved and a listener
\* was registered
C26_Witness ==
    /\ lastOp.threw
    /\ lastOp.op = "importTasks"
    /\ Len(store) >= 2
    /\ saved = Some(stringify(store))
    /\ listeners # {}

\* the task list read back from localStorage, empty when nothing was written
Persisted == IF IsSome(saved) THEN parse(Get(saved)) ELSE <<>>

\* C27: when loadTasks, addTask, updateTask, deleteTask, importTasks or
\* clearTasks has returned without error, the persisted list is the list of
\* the values of the collection, and each of them but loadTasks has called
\* every registered listener exactly once, with that list.
C27_Persisted ==
    (/\ lastOp.op \in {"loadTasks", "addTask", "updateTask", "deleteTask",
                        "importTasks", "clearTasks"}
     /\ ~lastOp.threw)
    => /\ Persisted = store
       /\ lastOp.op # "loadTasks" =>
              /\ DOMAIN lastOp.heard = listeners
              /\ \A l \in listeners : lastOp.heard[l] = <<Persisted>>

\* a deletion has returned with two listeners registered and a task left
\* whose text in localStorage lacks the parentId the task does not have
C27_Witness ==
    /\ lastOp.op = "deleteTask"
    /\ ~lastOp.threw
    /\ listeners = Listeners
    /\ Len(store) >= 2
    /\ IsSome(saved)
    /\ Len(Get(saved)[1]) < Len(FieldNames)
    /\ IsSome(store[2].parentId)

\* ------------------------------------------------------------------------
\* Growing a tree
\* ------------------------------------------------------------------------
\* a subtree without its places: the nodes, their tasks, depths and order
RECURSIVE Unplaced(_)
Unplaced(node) ==
    [task |-> node.task, depth |-> node.depth, complexity |-> node.complexity,
     size |-> node.size,
     children |-> [k \in 1..Len(node.children) |-> Unplaced(node.children[k])]]

\* every node below node is on the ring of its parent, at the place of its
\* index among the parent's children
OnRings(node) ==
    \A p \in Paths(node) \ {<<>>} :
        LET parent == NodeAt(node, SubSeq(p, 1, Len(p) - 1))
            n == Len(parent.children)
            i == p[Len(p)] - 1
        IN  NodeAt(node, p).position =
                [x |-> parent.position.x + Max(5, 2 * n) * Cos(i, n),
                 y |-> parent.position.y - 5000,
                 z |-> parent.position.z + Max(5, 2 * n) * Sin(i, n)]

\* C22: every addChild(node, child) leaves child the last of node.children,
\* after the earlier children in their order, leaves node where it was, and
\* leaves every node of node's subtree, the descendants the child came with
\* and the earlier siblings included, on the ring of its parent for its index
\* and the number of its siblings, around the place the parent now has.
C22_AddChild ==
    [][result'.op = "addChild" =>
          LET before == NodeAt(Get(root), result'.arg)
              node == NodeAt(Get(root'), result'.arg)
              n == Len(node.children)
          IN  /\ n = Len(before.children) + 1
              /\ Unplaced(node.children[n]) = Unplaced(Get(result'.value))
              /\ \A k \in 1..(n - 1) :
                     Unplaced(node.children[k]) = Unplaced(before.children[k])
              /\ node.position = before.position
              /\ OnRings(node)]_vars

\* a child that came with a subtree of its own has been added to a node below
\* the root that had children already, and its descendants have moved from
\* where they were built
C22_Witness ==
    /\ result.op = "addChild"
    /\ Len(result.arg) > 0
    /\ LET node == NodeAt(Get(root), result.arg)
           n == Len(node.children)
       IN  /\ n >= 2
           /\ Len(node.children[n].children) > 0
           /\ node.children[n].children[1].position
                  # Get(result.value).children[1].position

\* ------------------------------------------------------------------------
\* Visualizing every node of a tree
\* ------------------------------------------------------------------------
\* the nodes below node in the order their edges are collected: a child, then
\* the nodes below it, then the next child
RECURSIVE Walk(_)
Walk(node) ==
    Concat([k \in 1..Len(node.children) |->
               <<<<k>>>> \o [j \in 1..(Cardinality(Paths(node.children[k])) - 1) |->
                                <<k>> \o Walk(node.children[k])[j]]])

\* what one generateVisualization call on the node at path q of a tree
\* reports: none when the call throws, else for each connection the path of
\* the node it leads into, the connections being those of Walk in its order
\* (a connection that is not the edge into that node reports <<>>)
Reports(node, q) ==
    IF ColorThrows(node) THEN <<>>
    ELSE LET connections == generateVisualization(node).connections
             walk == Walk(node)
         IN  [k \in 1..Len(connections) |->
                 IF /\ connections[k].from = NodeAt(node, Parent(walk[k])).position
                    /\ connections[k].to = NodeAt(node, walk[k]).position
                 THEN q \o walk[k] ELSE <<>>]

\* the reports of one call on every node of the subtree of the node at q
RECURSIVE AllReports(_, _)
AllReports(node, q) ==
    Reports(node, q)
    \o Concat([k \in 1..Len(node.children) |->
                  AllReports(node.children[k], Append(q, k))])

\* how often the edge into the node at path p is among these reports
Times(reports, p) == Cardinality({i \in 1..Len(reports) : reports[i] = p})

CountsAsStated(tree, reports) ==
    \A p \in Below(tree) :
        /\ Times(reports, p) = NodeAt(tree, Parent(p)).depth + 1
        /\ (Times(reports, p) = 1) = (Len(p) = 1)

\* C23 as stated: one generateVisualization call on every node of the tree
\* createFractalTree returned reports the edge from a parent at depth d to
\* its child d + 1 times in all, once for the parent and once for each of its
\* ancestors, and the edges out of the root alone exactly once.
C23_AsStated == Created => CountsAsStated(Tree, AllReports(Tree, <<>>))

CountsReturning(tree, reports) ==
    \A p \in Below(tree) :
        Times(reports, p) =
            Cardinality({k \in 0..(Len(p) - 1) :
                            ~ColorThrows(NodeAt(tree, SubSeq(p, 1, k)))})

\* in every tree the edge is reported once by each of the parent and its
\* ancestors whose call returns: d + 1 times when all of them return
C23_ReturningCalls == Created => CountsReturning(Tree, AllReports(Tree, <<>>))

\* ------------------------------------------------------------------------
\* The work of createFractalTree
\* ------------------------------------------------------------------------
\* the steps and the nodes of the counted createFractalTree call
Counted == result.op = "createFractalTree" /\ IsSome(result.value)
Steps == Get(result.value).steps
Nodes == Get(result.value).nodes

\* C24 as stated: the child placements of one createFractalTree call are at
\* most a constant times the nodes of the tree, whatever its shape within
\* maxDepth; the constant is that of a node placed once for each level above
\* it and once more from the root, maxDepth + 1.
C24_AsStated == Counted => Steps <= (maxDepth + 1) * Nodes

\* the widest list of subtasks of the nodes of a task's tree
RECURSIVE Widest(_, _)
Widest(task, depth) ==
    LET below == {Widest(Built(task, depth)[k], depth + 1) :
                     k \in 1..Len(Built(task, depth))}
    IN  CHOOSE w \in below \cup {Len(Built(task, depth))} :
            \A v \in below \cup {Len(Built(task, depth))} : v <= w

\* the steps are bounded by the nodes times a factor that grows with the
\* widest node, and a node with w childless children alone costs
\* w (w + 3) / 2 steps for its w + 1 nodes
C24_GrowsWithWidth ==
    Counted =>
        /\ Steps <= (1 + maxDepth * Widest(hostTask, 0)) * Nodes
        /\ \A w \in 1..MaxFan :
               hostTask = PlainTask(Comb(1, w)) => 2 * Steps = w * (w + 3)

\* ------------------------------------------------------------------------
\* The strength of a connection by depth
\* ------------------------------------------------------------------------
\* C28: with maxDepth = 5, every connection generateVisualization returns for
\* a node of the tree createFractalTree built has, when it leads into a child
\* at depth d, a strength of at most max(0.2, 1 - d / 5); none is stronger
\* than 0.8, and one into a child at depth maxDepth has strength 0.2 exactly.
C28_ByDepth ==
    Visualized =>
        \A k \in 1..Len(Visual.connections) :
            LET d == NodeAt(Shown, EdgeAt(Shown, k)).depth
                strength == Visual.connections[k].strength
            IN  /\ maxDepth = 5
                /\ IF 5 - d >= 1
                   THEN 5 * strength[1] <= (5 - d) * strength[2]
                   ELSE 5 * strength[1] <= strength[2]
                /\ 5 * strength[1] <= 4 * strength[2]
                /\ d = maxDepth => strength = <<1, 5>>

\* the connections of a tree of full depth: one into a child at depth
\* maxDepth, and one above the floor of 0.2
C28_Witness ==
    /\ Visualized
    /\ \E k \in 1..Len(Visual.connections) :
           /\ NodeAt(Shown, EdgeAt(Shown, k)).depth = maxDepth
           /\ Visual.connections[k].strength = <<1, 5>>
    /\ \E k \in 1..Len(Visual.connections) :
           5 * Visual.connections[k].strength[1] > Visual.connections[k].strength[2]

\* ------------------------------------------------------------------------
\* The service worker offline
\* ------------------------------------------------------------------------
\* C29 as stated: once the worker is installed, every navigation made while
\* the network is unavailable is answered, with the cached copy of the page
\* when there is one and with the offline fallback page otherwise, and never
\* with no response.
C29_AsStated ==
    (fetched.mode = "navigate" /\ ~fetched.online) =>
        /\ fetched.response # "undefined"
        /\ fetched.response \in {"cached", "cached /offline.html"}

\* offline, a navigation is answered exactly when the page is in the cache;
\* the fallback page never is
C29_CachedPagesOnly ==
    /\ "/offline.html" \notin swCache
    /\ (fetched.mode = "navigate" /\ ~fetched.online) =>
           /\ fetched.response \in {"cached", "undefined"}
           /\ (fetched.response = "cached") = (fetched.url \in swCache)

====
